---- MODULE Spec2Model ----
(***************************************************************************)
(* A state-machine model of the vehicle simulator's core:                  *)
(*   - LapTracker           (src/game/game_window.py)                      *)
(*   - the road-position part of GameWindow.run and the Q-learning agent   *)
(*     QLearningAI          (src/game/ai_agent.py)                         *)
(*   - VehicleState         (src/game/physics.py)                          *)
(*                                                                         *)
(* Numbers.  The program computes in IEEE doubles; the model computes in   *)
(* integers of a fixed unit, chosen per quantity so that the values the    *)
(* program produces are represented exactly wherever that is possible:     *)
(*   track positions, speeds, lateral offsets   1 world unit               *)
(*   lap time, dt of LapTracker                 1/10 s                     *)
(*   rewards                                    1/30                       *)
(*   Q-values                                   1/30000 (floor rounding)   *)
(*   epsilon                                    1/100000 (floor rounding)  *)
(* The units of VehicleState are given with its definitions.               *)
(***************************************************************************)
EXTENDS Integers, Sequences, FiniteSets, TLC

(***************************************************************************)
(* Program constants                                                       *)
(***************************************************************************)
SEGMENT_LENGTH == 400
WINDOW_HEIGHT == 750
TOTAL_SEGMENTS == 1600
TRACK_LEN == TOTAL_SEGMENTS * SEGMENT_LENGTH

\* merge_sort_scores: runs of at most this many records are insertion-sorted
INSERTION_RUN == 10
\* config.RENDERING_DISTANCE: the segments projected per frame
RENDERING_DISTANCE == 600
\* the offset build_road_lines adds to every line.z, in units of 0.00001
Z_OFFSET == 1

\* LapTracker.TRIGGER
TRIGGER == SEGMENT_LENGTH * 3
\* the 2.0 s minimum lap time of LapTracker.update, in tenths of a second
LAP_MIN_TIME == 20

\* ai_agent.py constants.  ALPHA and GAMMA are in hundredths, epsilon values
\* in units of 1/EPS_ONE, EPSILON_DECAY in ten-thousandths.
Actions == 0 .. 4
ALPHA == 15
GAMMA == 92
EPS_ONE == 100000
EPSILON_START == EPS_ONE
EPSILON_MIN == 5000
EPSILON_DECAY == 9995
MAX_SPEED == 600
ROAD_HALF == 4500
\* QLearningAI.STEER_STEP, ACCEL_STEP, BASE_FORWARD
STEER_STEP == 40
ACCEL_STEP == SEGMENT_LENGTH \div 2
BASE_FORWARD == (SEGMENT_LENGTH * 6) \div 10
\* one reward unit is 1/REWARD_UNIT, one Q unit is 1/(REWARD_UNIT * Q_PER_REWARD)
REWARD_UNIT == 30
Q_PER_REWARD == 1000

\* config.py physics constants.  GRAVITY is in hundredths, AIR_DENSITY in
\* thousandths, FRONTAL_AREA in tenths, DRAG_COEFFICIENT in hundredths,
\* ROLLING_RESISTANCE_COEFF in thousandths; forces are in newtons, the mass in
\* kilograms, velocities in mm/s, accelerations in mm/s^2.
GRAVITY == 981
AIR_DENSITY == 1225
VEHICLE_MASS == 1500
FRONTAL_AREA == 22
DRAG_COEFFICIENT == 30
ROLLING_RESISTANCE_COEFF == 15
ENGINE_FORCE == 4000
MAX_VELOCITY == 600000
MIN_VELOCITY == 0
MAX_ACCELERATION == 60000
MIN_ACCELERATION == -60000
\* the brake deduction of VehicleState.update
BRAKE_FORCE == 1500
\* math.sin and math.cos of ROAD_SLOPE = 1 degree, in millionths
SLOPE_SIN == 17452
SLOPE_COS == 999848

(***************************************************************************)
(* Bounds of the model                                                     *)
(***************************************************************************)
\* lap time is not accumulated beyond this many tenths of a second
MaxLapTime == 45
\* no update is taken once this many laps were counted
MaxLaps == 3

\* the dt values (tenths of a second) handed to LapTracker.update
LapDts == {0, 8, 13, 21}
\* the track positions handed to LapTracker.update
LapPositions == {0, 50, TRIGGER - 1, TRIGGER, 1300, TRACK_LEN - 1}

\* no frame is taken once this many frames have run
MaxFrames == 3
\* the length of the short run of the agent over every road half-width
MaxLaneTicks == 3
\* the most lines one forward pass of the render loop covers, and the passes made
MaxPass == 4
MaxPassCalls == 1
\* the road half-widths of that run
LaneHalfWidths == {-60, 0, 60, ROAD_HALF}
\* the length of the long run of the agent alone
MaxAiTicks == 5700
\* the sets of keys held during a frame
KeyCombos == {{}, {"UP"}, {"DOWN"}, {"W", "TAB"}}
\* the games started: the speed multiplier handed to GameWindow, in quarters
\* (4 is 1.0, the default), and the start offset handed to QLearningAI
\* (GameWindow passes TRACK_LEN * 0.05)
Games == {<<4, TRACK_LEN \div 20>>, <<1, TRACK_LEN - 50>>,
          <<4, 2 * TRACK_LEN - 240000>>}
\* the road half-widths handed to QLearningAI.update
RoadHalfWidths == {60, ROAD_HALF}

\* no call on the vehicle is made once this many have been made
MaxVehicleCalls == 3
\* _update_q calls made on one table, and the calls they are drawn from:
\* (state, action, reward in thirtieths, next_state)
MaxQCalls == 5
QCalls ==
    LET S1 == <<2, 2, 2>>
        S2 == <<3, 2, 2>>
    IN  {<<S1, 0, r, S2>> : r \in {-15, 9, 99}}
            \cup {<<S2, 0, r, S1>> : r \in {-15, 9, 99}}
            \cup {<<S1, 0, r, S1>> : r \in {-15, 9, 99}}
\* the dt values (milliseconds) handed to VehicleState.update
VehicleDts == {0, 16, 1000}
\* the throttle boosts handed to VehicleState.update (the frame loop passes
\* 0, 500 or 1000)
Boosts == {0, 500, 1000}
\* the parameter dicts handed to apply_vehicle_params
ParamDicts ==
    { << >>,
      [k \in {"engine_force"} |-> 1000000],
      [k \in {"vehicle_mass"} |-> 750],
      [k \in {"drag_coefficient"} |-> 45],
      [k \in {"Modify Drag Coefficient"} |-> 500],
      [k \in {"drag_coefficient", "Modify Drag Coefficient"} |->
            IF k = "drag_coefficient" THEN 15 ELSE 500],
      [k \in {"vehicle_mass", "engine_force"} |->
            IF k = "vehicle_mass" THEN 2250 ELSE 1000] }

\* the (min_v, max_v) pairs _make_state hands to _bucket (the gap range
\* doubled, as the gap is) and the values tried against a pair: below, at
\* and above both ends and around the edges of the fifths
BucketRanges == {<<0, MAX_SPEED>>, <<-ROAD_HALF, ROAD_HALF>>, <<-TRACK_LEN, TRACK_LEN>>}
BucketValues(min_v, max_v) ==
    LET w == max_v - min_v
    IN  {min_v - w, min_v - 1, min_v, min_v + 1,
         min_v + w \div 5 - 1, min_v + w \div 5, min_v + (2 * w) \div 5,
         min_v + (3 * w) \div 5 - 1, min_v + (3 * w) \div 5, min_v + (4 * w) \div 5,
         max_v - 1, max_v, max_v + 1, max_v + w}

\* the arguments tried on _compute_reward: speeds and lane offsets at and
\* around the thresholds, agent positions, and player positions given as the
\* distance ahead of the agent
RewardSpeeds == {0, 240, 300, MAX_SPEED}
RewardLanes == {-ROAD_HALF, -2700, -2699, 0, 2699, 2700, ROAD_HALF + STEER_STEP}
RewardAiPositions == {0, TRACK_LEN \div 20, TRACK_LEN - 50}
RewardLeads == {0, 1, TRACK_LEN \div 10 - 1, TRACK_LEN \div 10,
                (3 * TRACK_LEN) \div 10, (3 * TRACK_LEN) \div 10 + 1,
                TRACK_LEN \div 2, TRACK_LEN \div 2 + 1, TRACK_LEN - 1}

\* the frames of the loop taken section by section
MaxLoopFrames == 2
\* the dt values (milliseconds) of those frames, the speed multipliers (in
\* quarters) of the games, the road half-widths and random draws of the
\* agent's update, and the player logged in
LoopDts == {100, 2100}
LoopMultipliers == {1, 4}
LoopHalfWidths == {ROAD_HALF}
LoopChoices == {0, 5}
LoopUser == "ann"
\* no score is saved once the file holds this many records
MaxSaved == 3
\* the usernames and scores saved
SavedNames == {"ann", "bob"}
SavedScores == {10, 50}
\* the longest list of scores sorted
MaxScores == 11
\* the lists handed to the leaderboard: every list of at most three records
\* with scores among 10, 30 and 50, and every longer list of at most MaxScores
\* records with scores 10 and 50.  A record's username is its place in the
\* list as loaded.
ScoreLists ==
    LET Short == UNION {[1 .. n -> {10, 30, 50}] : n \in 0 .. 3}
        Long  == UNION {[1 .. n -> {10, 50}] : n \in 4 .. MaxScores}
    IN  {[i \in DOMAIN f |-> [username |-> i, score |-> f[i]]] : f \in Short \cup Long}

\* Python's None, for a number and for a state triple
NoValue == -1
NoState == << >>

VARIABLES
    lap,        \* the LapTracker object: lap_count, lap_time, best_lap, was_near
    lap_obs,    \* what the last LapTracker.update call saw and returned
    POSITION,   \* GameWindow.run: the player's track position
    speed_multiplier,   \* GameWindow.speed_multiplier, in quarters
    frames,     \* the number of frames GameWindow.run has completed
    ai,         \* the QLearningAI object
    ai_obs,     \* what the last QLearningAI.update call saw and returned
    vehicle,    \* the VehicleState object
    vehicle_obs, \* the last call made on the VehicleState object
    q_obs,      \* the run of identical _update_q calls the last call belongs to
    bucket_obs, \* the last two _bucket calls: arguments and results
    reward_obs, \* the last _compute_reward call: arguments and result
    score_data, \* the list of score records the leaderboard screen holds
    sort_obs,   \* the list as it was before the last merge_sort_scores call
    scores_file, \* the file SCORES_FILE: absent, unparsable or a JSON text
    save_obs,   \* the last save_score call: arguments, outcome, the load before it
    render_obs, \* the depths Line.project divided by in the last render loop
    run,        \* GameWindow.run taken section by section: where it stands, its locals
    pass_obs,   \* one forward pass of the render loop: the Y of each line, clip, drawn
    road_lines, \* the list build_road_lines has built so far
    app         \* main.py: the AppState object, the sliders, the parameter table

vars == <<lap, lap_obs, POSITION, speed_multiplier, frames, ai, ai_obs,
          vehicle, vehicle_obs, q_obs, bucket_obs,
          reward_obs, score_data, sort_obs, scores_file, save_obs, render_obs, run,
          pass_obs, road_lines, app>>
lapVars == <<lap, lap_obs>>
trackVars == <<POSITION, speed_multiplier, frames, ai, ai_obs>>
vehicleVars == <<vehicle, vehicle_obs>>
\* the records of calls made on single functions
fnCalls == <<q_obs, bucket_obs, reward_obs, score_data, sort_obs>>
\* the forward pass, the track under construction and the menu application
buildVars == <<pass_obs, road_lines, app>>
obsCalls == <<fnCalls, buildVars>>
storeVars == <<scores_file, save_obs>>
loopVars == <<render_obs, run>>
callVars == <<obsCalls, storeVars, loopVars>>

(***************************************************************************)
(* LapTracker                                                              *)
(***************************************************************************)
\* LapTracker.__init__
LapTracker_init ==
    [lap_count |-> 0, lap_time |-> 0, best_lap |-> NoValue, was_near |-> FALSE]

\* near = track_pos < self.TRIGGER
Near(track_pos) == track_pos < TRIGGER

\* A variant of LapTracker.update that forgets to latch _was_near when a lap
\* is counted.
LapTracker_update_NoLatch(self, dt, track_pos) ==
    LET t    == self.lap_time + dt
        near == Near(track_pos)
    IN  IF near /\ ~self.was_near /\ t > LAP_MIN_TIME
        THEN [self |-> [lap_count |-> self.lap_count + 1,
                        lap_time  |-> 0,
                        best_lap  |-> IF self.best_lap = NoValue \/ t < self.best_lap
                                      THEN t ELSE self.best_lap,
                        was_near  |-> self.was_near],
              ret  |-> TRUE]
        ELSE [self |-> [self EXCEPT !.lap_time = t,
                                    !.was_near = IF ~near THEN FALSE ELSE @],
              ret  |-> FALSE]

\* A variant of LapTracker.update that stores every lap's time as the best.
LapTracker_update_BestIsLast(self, dt, track_pos) ==
    LET t    == self.lap_time + dt
        near == Near(track_pos)
    IN  IF near /\ ~self.was_near /\ t > LAP_MIN_TIME
        THEN [self |-> [lap_count |-> self.lap_count + 1,
                        lap_time  |-> 0,
                        best_lap  |-> t,
                        was_near  |-> TRUE],
              ret  |-> TRUE]
        ELSE [self |-> [self EXCEPT !.lap_time = t,
                                    !.was_near = IF ~near THEN FALSE ELSE @],
              ret  |-> FALSE]

\* LapTracker.update(dt, track_pos): the tracker after the call and the value
\* returned.
LapTracker_update(self, dt, track_pos) ==
    LET t    == self.lap_time + dt
        near == Near(track_pos)
    IN  IF near /\ ~self.was_near /\ t > LAP_MIN_TIME
        THEN [self |-> [lap_count |-> self.lap_count + 1,
                        lap_time  |-> 0,
                        best_lap  |-> IF self.best_lap = NoValue \/ t < self.best_lap
                                      THEN t ELSE self.best_lap,
                        was_near  |-> TRUE],
              ret  |-> TRUE]
        ELSE [self |-> [self EXCEPT !.lap_time = t,
                                    !.was_near = IF ~near THEN FALSE ELSE @],
              ret  |-> FALSE]

\* No call of LapTracker.update has been made yet.
LapObsInit ==
    [pos |-> NoValue, prev_pos |-> NoValue, ret |-> FALSE,
     fired_time |-> NoValue, held |-> FALSE]

\* One call of LapTracker.update.  lap_obs records the call: its position
\* argument, the one of the call before, the value returned, the lap time at
\* the moment a lap was counted, and whether the position has stayed in the
\* trigger zone on every call since a lap was last counted.
LapUpdate(dt, track_pos) ==
    /\ lap.lap_count < MaxLaps
    /\ lap.lap_time + dt <= MaxLapTime
    /\ LET r == LapTracker_update(lap, dt, track_pos)
       IN  /\ lap' = r.self
           /\ lap_obs' = [pos        |-> track_pos,
                          prev_pos   |-> lap_obs.pos,
                          ret        |-> r.ret,
                          fired_time |-> IF r.ret THEN lap.lap_time + dt ELSE NoValue,
                          held       |-> IF r.ret THEN TRUE
                                         ELSE lap_obs.held /\ Near(track_pos)]
    /\ UNCHANGED <<callVars,trackVars, vehicleVars>>

(***************************************************************************)
(* Arithmetic helpers                                                      *)
(***************************************************************************)
Max2(a, b) == IF a >= b THEN a ELSE b
Min2(a, b) == IF a <= b THEN a ELSE b
Abs(a) == IF a >= 0 THEN a ELSE -a
\* Python's int() of the quotient num / den, den > 0: truncation toward zero
Trunc(num, den) == IF num >= 0 THEN num \div den ELSE -((-num) \div den)

(***************************************************************************)
(* QLearningAI: state discretisation and reward                            *)
(***************************************************************************)
\* A variant of _bucket without the clamp to 0 .. n-1.
bucket_NoClamp(value, min_v, max_v, n) ==
    Trunc((value - min_v) * n, max_v - min_v)

\* _bucket(value, min_v, max_v, n)
bucket(value, min_v, max_v, n) ==
    Max2(0, Min2(n - 1, Trunc((value - min_v) * n, max_v - min_v)))

\* A variant of the gap of _make_state without the wrap correction.
make_state_gap_NoWrap(player_pos, ai_pos) ==
    (player_pos - ai_pos) % TRACK_LEN

\* the gap of _make_state: raw modulo gap, less TRACK_LEN when it exceeds half
\* the track
make_state_gap(player_pos, ai_pos) ==
    LET gap == (player_pos - ai_pos) % TRACK_LEN
    IN  IF 2 * gap > TRACK_LEN THEN gap - TRACK_LEN ELSE gap

\* _make_state(ai_speed, ai_lane_x, player_pos, ai_pos)
make_state(ai_speed, ai_lane_x, player_pos, ai_pos) ==
    LET speed_b == bucket(ai_speed, 0, MAX_SPEED, 5)
        lane_b  == bucket(ai_lane_x, -ROAD_HALF, ROAD_HALF, 5)
        gap     == make_state_gap(player_pos, ai_pos)
        \* -TRACK_LEN / 2 and TRACK_LEN / 2, doubled to stay in integers
        gap_b   == bucket(2 * gap, -TRACK_LEN, TRACK_LEN, 5)
    IN  <<speed_b, lane_b, gap_b>>

\* A variant of the gap of _compute_reward without the wrap correction.
compute_reward_gap_NoWrap(player_pos, ai_pos) ==
    (player_pos - ai_pos) % TRACK_LEN

\* the gap of _compute_reward
compute_reward_gap(player_pos, ai_pos) ==
    LET gap == (player_pos - ai_pos) % TRACK_LEN
    IN  IF 2 * gap > TRACK_LEN THEN gap - TRACK_LEN ELSE gap

\* _compute_reward(ai_speed, ai_lane_x, player_pos, ai_pos, on_road), in units
\* of 1/REWARD_UNIT
compute_reward(ai_speed, ai_lane_x, player_pos, ai_pos, on_road) ==
    LET speed_r  == (ai_speed * 2 * REWARD_UNIT) \div MAX_SPEED
        road_r   == IF ~on_road THEN -3 * REWARD_UNIT ELSE 0
        centre_r == IF 10 * Abs(ai_lane_x) < 6 * ROAD_HALF
                    THEN (3 * REWARD_UNIT) \div 10 ELSE -(5 * REWARD_UNIT) \div 10
        gap      == compute_reward_gap(player_pos, ai_pos)
        gap_r    == IF 0 < gap /\ 10 * gap < TRACK_LEN THEN REWARD_UNIT
                    ELSE IF 10 * gap > 3 * TRACK_LEN THEN -REWARD_UNIT
                    ELSE 0
    IN  speed_r + road_r + centre_r + gap_r

(***************************************************************************)
(* QLearningAI: the Q-table, a defaultdict from state triples to rows      *)
(***************************************************************************)
\* the default row  {a: 0.0 for a in ACTIONS}
ZeroRow == [a \in Actions |-> 0]

EmptyQ == [s \in {} |-> ZeroRow]

\* self._q[state]: the defaultdict inserts the default row on a miss
Touch(q, state) == IF state \in DOMAIN q THEN q ELSE q @@ (state :> ZeroRow)

\* self._q[s][a] as a read that leaves the table alone: a missing row reads 0
QVal(q, s, a) == IF s \in DOMAIN q THEN q[s][a] ELSE 0

\* A variant of the next-state value that takes the smallest entry of the row.
RowMax_Min(row) == CHOOSE m \in {row[a] : a \in DOMAIN row} : \A a \in DOMAIN row : m <= row[a]

\* max(row.values())
RowMax(row) == CHOOSE m \in {row[a] : a \in DOMAIN row} : \A a \in DOMAIN row : row[a] <= m

\* A variant of _best_action that returns the last of the maximal actions.
best_action_LastMax(q, state) ==
    LET q_row == Touch(q, state)[state]
    IN  CHOOSE a \in DOMAIN q_row :
            /\ \A b \in DOMAIN q_row : q_row[b] <= q_row[a]
            /\ \A b \in DOMAIN q_row : b > a => q_row[b] < q_row[a]

\* max(q_row, key=q_row.__getitem__): the first action, in insertion order
\* 0..4, whose value is maximal
best_action(q, state) ==
    LET q_row == Touch(q, state)[state]
    IN  CHOOSE a \in DOMAIN q_row :
            /\ \A b \in DOMAIN q_row : q_row[b] <= q_row[a]
            /\ \A b \in DOMAIN q_row : b < a => q_row[b] < q_row[a]

\* A variant of _update_q that stores the new value in the row of next_state.
update_q_WrongRow(q, state, action, reward, next_state) ==
    LET q1        == Touch(q, state)
        old_q     == q1[state][action]
        q2        == Touch(q1, next_state)
        best_next == RowMax(q2[next_state])
        new_q     == old_q + (ALPHA * (reward * Q_PER_REWARD
                                       + (GAMMA * best_next) \div 100 - old_q)) \div 100
    IN  [q2 EXCEPT ![next_state][action] = new_q]

\* _update_q(state, action, reward, next_state): the table after the call
update_q(q, state, action, reward, next_state) ==
    LET q1        == Touch(q, state)
        old_q     == q1[state][action]
        q2        == Touch(q1, next_state)
        best_next == RowMax(q2[next_state])
        new_q     == old_q + (ALPHA * (reward * Q_PER_REWARD
                                       + (GAMMA * best_next) \div 100 - old_q)) \div 100
    IN  [q2 EXCEPT ![state][action] = new_q]

(***************************************************************************)
(* QLearningAI: construction and the per-frame update                      *)
(***************************************************************************)
\* A variant of the epsilon decay without the floor.
decay_epsilon_NoFloor(epsilon) == (epsilon * EPSILON_DECAY) \div 10000

\* self.epsilon = max(EPSILON_MIN, self.epsilon * EPSILON_DECAY)
decay_epsilon(epsilon) == Max2(EPSILON_MIN, (epsilon * EPSILON_DECAY) \div 10000)

\* A variant of the position advance that does not wrap.
advance_NoWrap(position, forward) == position + forward

\* self.position = (self.position + forward) % TRACK_LEN
advance(position, forward) == (position + forward) % TRACK_LEN

\* QLearningAI.__init__(start_offset)
QLearningAI_init(start_offset) ==
    [position     |-> start_offset % TRACK_LEN,
     lane_x       |-> 0,
     speed        |-> BASE_FORWARD,
     q            |-> EmptyQ,
     epsilon      |-> EPSILON_START,
     prev_state   |-> NoState,
     prev_action  |-> NoValue,
     total_reward |-> 0]

\* the outcome of the two random draws of update: explore with one of the
\* five actions, or exploit
GREEDY == 5
Choices == Actions \cup {GREEDY}
\* random.random() < epsilon can always hold (random() may return 0.0) and can
\* fail only when epsilon < 1 (random() < 1)
ChoicePossible(epsilon, choice) == choice = GREEDY => epsilon < EPS_ONE

\* A variant of the speed part of the action that does not cap acceleration.
action_speed_NoCap(speed, action) ==
    IF action = 0 THEN speed + ACCEL_STEP
    ELSE IF action = 1 THEN Max2(0, speed - (ACCEL_STEP * 8) \div 10)
    ELSE speed

\* A variant of the speed part of the action in which coasting sheds speed.
action_speed_CoastSlows(speed, action) ==
    IF action = 0 THEN Min2(MAX_SPEED, speed + ACCEL_STEP)
    ELSE IF action = 1 THEN Max2(0, speed - (ACCEL_STEP * 8) \div 10)
    ELSE IF action = 4 THEN Max2(0, speed - 1)
    ELSE speed

\* "Apply action", the speed: accelerate and brake
action_speed(speed, action) ==
    IF action = 0 THEN Min2(MAX_SPEED, speed + ACCEL_STEP)
    ELSE IF action = 1 THEN Max2(0, speed - (ACCEL_STEP * 8) \div 10)
    ELSE speed

\* "Apply action", the lateral offset: steer left and steer right
action_lane(lane_x, action) ==
    IF action = 2 THEN lane_x - STEER_STEP
    ELSE IF action = 3 THEN lane_x + STEER_STEP
    ELSE lane_x

\* A variant of the lane clamp that only keeps the agent from the left edge.
clamp_lane_LeftOnly(lane_x, road_half_w) == Max2(-road_half_w, lane_x)

\* "Clamp lane to road": max(-road_half_w, min(road_half_w, self.lane_x))
clamp_lane(lane_x, road_half_w) == Max2(-road_half_w, Min2(road_half_w, lane_x))

\* QLearningAI.update(player_pos, road_half_w) with the given outcome of the
\* random draws: the agent after the call, the value returned, and the
\* locals of the call.
QLearningAI_update(self, player_pos, road_half_w, choice) ==
    LET on_road == Abs(self.lane_x) < road_half_w
        state   == make_state(self.speed, self.lane_x, player_pos, self.position)
        reward  == compute_reward(self.speed, self.lane_x, player_pos,
                                  self.position, on_road)
        q1      == IF self.prev_state # NoState
                   THEN update_q(self.q, self.prev_state, self.prev_action, reward, state)
                   ELSE self.q
        action  == IF choice = GREEDY THEN best_action(q1, state) ELSE choice
        q2      == IF choice = GREEDY THEN Touch(q1, state) ELSE q1
        speed   == action_speed(self.speed, action)
        lane    == action_lane(self.lane_x, action)
        lane_x  == clamp_lane(lane, road_half_w)
        forward == BASE_FORWARD + Max2(0, speed \div 10)
    IN  [self    |-> [position     |-> advance(self.position, forward),
                      lane_x       |-> lane_x,
                      speed        |-> speed,
                      q            |-> q2,
                      epsilon      |-> decay_epsilon(self.epsilon),
                      prev_state   |-> state,
                      prev_action  |-> action,
                      total_reward |-> self.total_reward + reward],
         forward |-> forward,
         on_road |-> on_road,
         state   |-> state,
         reward  |-> reward,
         action  |-> action]

\* No call of QLearningAI.update has been made yet.
AiObsInit ==
    [player_pos |-> NoValue, ai_pos |-> NoValue, road_half_w |-> NoValue,
     gap |-> 0, reward_gap |-> 0, state |-> NoState, reward |-> 0,
     on_road |-> FALSE, action |-> NoValue, explored |-> FALSE,
     forward |-> NoValue, written |-> {}, used |-> {}]

\* The record of one call of QLearningAI.update: its arguments, the locals it
\* computed, the value it returned, the Q entries written so far and the rows
\* this call read or wrote.
AiObs(self, player_pos, road_half_w, choice, r) ==
    [player_pos  |-> player_pos,
     ai_pos      |-> self.position,
     road_half_w |-> road_half_w,
     gap         |-> make_state_gap(player_pos, self.position),
     reward_gap  |-> compute_reward_gap(player_pos, self.position),
     state       |-> r.state,
     reward      |-> r.reward,
     on_road     |-> r.on_road,
     action      |-> r.action,
     explored    |-> choice # GREEDY,
     forward     |-> r.forward,
     written     |-> IF self.prev_state # NoState
                     THEN ai_obs.written \cup {<<self.prev_state, self.prev_action>>}
                     ELSE ai_obs.written,
     used        |-> (IF self.prev_state # NoState THEN {self.prev_state, r.state} ELSE {})
                     \cup (IF choice = GREEDY THEN {r.state} ELSE {})]

(***************************************************************************)
(* QLearningAI._update_q called directly on the agent's table              *)
(***************************************************************************)
QObsInit ==
    [calls |-> 0, last |-> << >>, v |-> 0, streak |-> 0, q_first |-> 0, q_before |-> 0]

\* One call self._update_q(state, action, reward, next_state).  q_obs records
\* the call, the value of next_state and of Q[state][action] it found, and
\* how many consecutive calls had these arguments and this next-state value.
QUpdate(state, action, reward, next_state) ==
    /\ q_obs.calls < MaxQCalls
    /\ ai' = [ai EXCEPT !.q = update_q(ai.q, state, action, reward, next_state)]
    /\ LET c      == <<state, action, reward, next_state>>
           v      == CHOOSE m \in {QVal(ai.q, next_state, a) : a \in Actions} :
                         \A a \in Actions : QVal(ai.q, next_state, a) <= m
           old    == QVal(ai.q, state, action)
           repeat == q_obs.last = c /\ q_obs.v = v
       IN  q_obs' = [calls    |-> q_obs.calls + 1,
                     last     |-> c,
                     v        |-> v,
                     streak   |-> IF repeat THEN q_obs.streak + 1 ELSE 1,
                     q_first  |-> IF repeat THEN q_obs.q_first ELSE old,
                     q_before |-> old]
    /\ UNCHANGED <<POSITION, speed_multiplier, frames, ai_obs, lapVars, vehicleVars,
                   bucket_obs, reward_obs, score_data, sort_obs, scores_file, save_obs,
                   loopVars, buildVars>>


(***************************************************************************)
(* VehicleState                                                            *)
(***************************************************************************)
\* VehicleState(): the dataclass defaults and __post_init__.  Units: velocity
\* mm/s, position and total_distance mm, accelerations mm/s^2, forces N,
\* drag_losses, rr_losses, fuel_consumption_rate and gf_force hundredths,
\* tire_wear thousandths, lap_time ms.  The cosmetic sensor fields, which no
\* method writes, are left out.
VehicleState_init ==
    [velocity              |-> 0,
     position              |-> 0,
     acceleration          |-> 0,
     acceleration_clamped  |-> 0,
     air_resistance        |-> 0,
     rolling_resistance    |-> 0,
     drag_losses           |-> 0,
     rr_losses             |-> 0,
     fuel_consumption_rate |-> 0,
     engine_force_current  |-> 0,
     total_distance        |-> 0,
     tire_wear             |-> 0,
     lap_time              |-> 0,
     mass                  |-> VEHICLE_MASS,
     frontal_area          |-> FRONTAL_AREA,
     drag_coeff            |-> DRAG_COEFFICIENT,
     rr_coeff              |-> ROLLING_RESISTANCE_COEFF,
     base_engine_force     |-> ENGINE_FORCE,
     current_gear          |-> 3,
     gf_force              |-> GRAVITY * VEHICLE_MASS]

\* A variant of the velocity clamp without the upper limit.
ClampVelocity_NoMax(velocity) == Max2(MIN_VELOCITY, velocity)

\* max(MIN_VELOCITY, min(MAX_VELOCITY, self.velocity))
ClampVelocity(velocity) == Max2(MIN_VELOCITY, Min2(MAX_VELOCITY, velocity))

\* The part of VehicleState.update that runs when moving is true, on a state
\* whose lap_time is already advanced.
VehicleState_drive(self, dt, throttle_boost, braking) ==
    LET engine_f  == IF ~braking THEN self.base_engine_force + throttle_boost
                     ELSE self.base_engine_force - BRAKE_FORCE
        \* velocity ** 2, in (m/s)^2, from the velocity in dm/s
        v2        == ((self.velocity \div 100) * (self.velocity \div 100)) \div 100
        \* 0.5 * AIR_DENSITY * frontal_area, in units of 1/400
        half_rho_a == (AIR_DENSITY * self.frontal_area) \div 50
        air       == (((v2 * half_rho_a) \div 400) * self.drag_coeff) \div 100
        \* rr_coeff * mass * GRAVITY * slope_cos, in tenths
        rr_k      == ((((self.rr_coeff * self.mass * GRAVITY) \div 1000)
                          * (SLOPE_COS \div 100)) \div 10000) \div 10
        rolling   == (rr_k * air) \div 100000
        \* slope_inf * mass = GRAVITY * slope_sin * mass
        slope_f   == (((GRAVITY * SLOPE_SIN) \div 1000) * self.mass) \div 100000
        net_force == engine_f - air - rolling + slope_f
        accel     == ((net_force * 100) \div self.mass) * 10
        v_half    == self.velocity + (accel * dt) \div 2000
        pos       == self.position + (v_half * dt) \div 1000
                         + (((accel * dt) \div 1000) * dt) \div 2000
        v_new     == ClampVelocity(v_half)
        \* 0.5 * AIR_DENSITY * velocity * frontal_area * drag_coeff, in hundredths
        drag_p    == ((((v_new \div 10) * half_rho_a) \div 400) * self.drag_coeff) \div 100
        drag_l    == (drag_p * dt) \div 1000
        rr_l      == (((self.rr_coeff * self.mass * GRAVITY) \div 1000)
                         * (v_new \div 1000)) \div 1000
        fuel      == ((engine_f * 100 + v_new \div 10) * 2 + drag_l + rr_l) \div 3
    IN  [self EXCEPT
            !.air_resistance        = air,
            !.rolling_resistance    = rolling,
            !.acceleration          = accel,
            !.acceleration_clamped  = Max2(MIN_ACCELERATION, Min2(accel, MAX_ACCELERATION)),
            !.engine_force_current  = engine_f,
            !.velocity              = v_new,
            !.position              = pos,
            !.drag_losses           = drag_l,
            !.rr_losses             = rr_l,
            !.fuel_consumption_rate = fuel,
            !.total_distance        = @ + (v_new * dt) \div 1000]

\* A variant of VehicleState.update without the early return for an idle
\* vehicle.
VehicleState_update_NoIdleReturn(self, dt, moving, throttle_boost, braking) ==
    VehicleState_drive([self EXCEPT !.lap_time = @ + dt], dt, throttle_boost, braking)

\* VehicleState.update(dt, moving, throttle_boost, braking)
VehicleState_update(self, dt, moving, throttle_boost, braking) ==
    LET timed == [self EXCEPT !.lap_time = @ + dt]
    IN  IF ~moving THEN timed
        ELSE VehicleState_drive(timed, dt, throttle_boost, braking)

\* A variant of apply_vehicle_params that does not refresh gf_force.
VehicleState_apply_vehicle_params_StaleGf(self, params) ==
    LET has(k)  == k \in DOMAIN params
        massed  == IF has("vehicle_mass")
                   THEN [self EXCEPT !.mass = params["vehicle_mass"]]
                   ELSE self
        dragged == IF has("drag_coefficient") THEN
                       [massed EXCEPT !.drag_coeff = params["drag_coefficient"]]
                   ELSE IF has("Modify Drag Coefficient") THEN
                       [massed EXCEPT !.drag_coeff = params["Modify Drag Coefficient"]]
                   ELSE massed
    IN  IF has("engine_force")
        THEN [dragged EXCEPT !.base_engine_force = params["engine_force"]]
        ELSE dragged

\* VehicleState.apply_vehicle_params(params)
VehicleState_apply_vehicle_params(self, params) ==
    LET has(k)  == k \in DOMAIN params
        massed  == IF has("vehicle_mass")
                   THEN [self EXCEPT !.mass = params["vehicle_mass"],
                                     !.gf_force = GRAVITY * params["vehicle_mass"]]
                   ELSE self
        dragged == IF has("drag_coefficient") THEN
                       [massed EXCEPT !.drag_coeff = params["drag_coefficient"]]
                   ELSE IF has("Modify Drag Coefficient") THEN
                       [massed EXCEPT !.drag_coeff = params["Modify Drag Coefficient"]]
                   ELSE massed
    IN  IF has("engine_force")
        THEN [dragged EXCEPT !.base_engine_force = params["engine_force"]]
        ELSE dragged

\* No call has been made on the vehicle yet.
VehicleObsInit ==
    [calls |-> 0, op |-> "init", dt |-> 0, moving |-> FALSE, throttle_boost |-> 0,
     braking |-> FALSE, params |-> << >>, before |-> VehicleState_init]

\* One call of VehicleState.update.  vehicle_obs records the call and the
\* state it was made on.
VehicleUpdate(dt, moving, throttle_boost, braking) ==
    /\ vehicle_obs.calls < MaxVehicleCalls
    /\ vehicle' = VehicleState_update(vehicle, dt, moving, throttle_boost, braking)
    /\ vehicle_obs' = [calls |-> vehicle_obs.calls + 1, op |-> "update", dt |-> dt,
                       moving |-> moving, throttle_boost |-> throttle_boost,
                       braking |-> braking, params |-> << >>, before |-> vehicle]
    /\ UNCHANGED <<callVars,lapVars, trackVars>>

\* One call of VehicleState.apply_vehicle_params.
ApplyVehicleParams(params) ==
    /\ vehicle_obs.calls < MaxVehicleCalls
    /\ vehicle' = VehicleState_apply_vehicle_params(vehicle, params)
    /\ vehicle_obs' = [calls |-> vehicle_obs.calls + 1, op |-> "apply_vehicle_params",
                       dt |-> 0, moving |-> FALSE, throttle_boost |-> 0,
                       braking |-> FALSE, params |-> params, before |-> vehicle]
    /\ UNCHANGED <<callVars,lapVars, trackVars>>

(***************************************************************************)
(* _bucket called on its own                                               *)
(***************************************************************************)
BucketObsInit ==
    [calls |-> 0, value |-> 0, min_v |-> 0, max_v |-> 0, ret |-> 0,
     prev_value |-> 0, prev_min |-> 0, prev_max |-> 0, prev_ret |-> 0]

\* One call _bucket(value, min_v, max_v, 5).  bucket_obs keeps this call and
\* the one before it.
BucketCall(value, min_v, max_v) ==
    /\ bucket_obs' = [calls      |-> Min2(2, bucket_obs.calls + 1),
                      value      |-> value,
                      min_v      |-> min_v,
                      max_v      |-> max_v,
                      ret        |-> bucket(value, min_v, max_v, 5),
                      prev_value |-> bucket_obs.value,
                      prev_min   |-> bucket_obs.min_v,
                      prev_max   |-> bucket_obs.max_v,
                      prev_ret   |-> bucket_obs.ret]
    /\ UNCHANGED <<lapVars, trackVars, vehicleVars, q_obs, reward_obs, score_data, sort_obs,
                   scores_file, save_obs, loopVars, buildVars>>

(***************************************************************************)
(* _compute_reward called on its own                                       *)
(***************************************************************************)
RewardObsInit ==
    [calls |-> 0, ai_speed |-> 0, ai_lane_x |-> 0, player_pos |-> 0, ai_pos |-> 0,
     on_road |-> FALSE, ret |-> 0]

\* One call _compute_reward(ai_speed, ai_lane_x, player_pos, ai_pos, on_road);
\* the function keeps no state, so one call is made per run.
RewardCall(ai_speed, ai_lane_x, player_pos, ai_pos, on_road) ==
    /\ reward_obs.calls = 0
    /\ reward_obs' = [calls      |-> 1,
                      ai_speed   |-> ai_speed,
                      ai_lane_x  |-> ai_lane_x,
                      player_pos |-> player_pos,
                      ai_pos     |-> ai_pos,
                      on_road    |-> on_road,
                      ret        |-> compute_reward(ai_speed, ai_lane_x, player_pos,
                                                    ai_pos, on_road)]
    /\ UNCHANGED <<lapVars, trackVars, vehicleVars, q_obs, bucket_obs, score_data, sort_obs,
                   scores_file, save_obs, loopVars, buildVars>>

(***************************************************************************)
(* renderer.py and the render loop of GameWindow.run: the depth z - cam_z   *)
(* Line.project divides by.  A depth is kept in two parts, whole world      *)
(* units and units of 0.00001 (both are exact in a double: the largest z    *)
(* is below 2^20 and 0.00001 is above 2^-17); it is zero when both are.     *)
(***************************************************************************)
\* A variant of build_road_lines that puts every line at i * SEGMENT_LENGTH.
Line_z_NoOffset(i) == [units |-> i * SEGMENT_LENGTH, small |-> 0]

\* build_road_lines: line.z = i * SEGMENT_LENGTH + 0.00001
Line_z(i) == [units |-> i * SEGMENT_LENGTH, small |-> Z_OFFSET]

\* cam_z = POSITION - (TRACK_LEN if n >= N else 0)
cam_z(n, position) == position - (IF n >= TOTAL_SEGMENTS THEN TRACK_LEN ELSE 0)

\* Line.project: self.z - cam_z, for the line of index i
Line_depth(i, camz) == [units |-> Line_z(i).units - camz, small |-> Line_z(i).small]

\* the render loop: the depth of every n in range(start_pos, start_pos +
\* RENDERING_DISTANCE), each projected through lines[n % N]
RenderDepths(position) ==
    LET start_pos == position \div SEGMENT_LENGTH
    IN  [n \in start_pos .. start_pos + RENDERING_DISTANCE - 1 |->
             Line_depth(n % TOTAL_SEGMENTS, cam_z(n, position))]

\* No frame has been rendered yet.
RenderObsInit ==
    [projected |-> 0, cam |-> NoValue, start_pos |-> NoValue, own |-> [units |-> 0, small |-> 0],
     last |-> [units |-> 0, small |-> 0], past_seam |-> 0, zero |-> {}]

\* What one render loop did: how many lines it projected, with the camera
\* at which POSITION and from which segment, the depth of the camera's own segment and of the farthest line,
\* how many lines lay past the loop seam, and the n whose depth was zero.
RenderObs(position) ==
    LET depths == RenderDepths(position)
        ns     == DOMAIN depths
        first  == position \div SEGMENT_LENGTH
    IN  [projected |-> Cardinality(ns),
         cam       |-> position,
         start_pos |-> first,
         own       |-> depths[first],
         last      |-> depths[first + RENDERING_DISTANCE - 1],
         past_seam |-> Cardinality({n \in ns : n >= TOTAL_SEGMENTS}),
         zero      |-> {n \in ns : depths[n].units = 0 /\ depths[n].small = 0}]

\* build_road_lines: the lines that carry a decoration sprite
HasSprite(i) ==
    \/ i < 300 /\ i % 30 = 0
    \/ i % 21 = 0
    \/ i > 300 /\ i % 45 = 0
    \/ i > 800 /\ i % 45 = 0

\* The render loop that last called project on line i, counted from 1, given
\* the start_pos of every render loop run so far; 0 if none has, and X, Y, W
\* and scale still are the 0.0 of Line.__init__.
LastProjected(i, renders) ==
    LET hits == {k \in 1 .. Len(renders) :
                     (i - renders[k]) % TOTAL_SEGMENTS < RENDERING_DISTANCE}
    IN  IF hits = {} THEN 0 ELSE CHOOSE k \in hits : \A h \in hits : h <= k

\* One read of the projection fields of line i during frame number frame
ProjectionRead(by, i, frame, renders) ==
    [by |-> by, line |-> i, frame |-> frame, projected |-> LastProjected(i, renders)]

\* The reads the road rendering makes once the render loop of the frame has
\* projected its lines: the band of the camera's own segment, drawn when its
\* Y is below the window height, which it is when the camera stands inside
\* the segment (scale < 0) and is not when it stands on its edge, reads the
\* line before it; draw_sprite reads every line from start_pos +
\* RENDERING_DISTANCE down to start_pos + 2 that carries a sprite.  (The
\* bands of the later segments read the line the loop projected just before.)
DrawReads(position, frame, renders) ==
    LET start_pos == position \div SEGMENT_LENGTH
        own       == Line_depth(start_pos, cam_z(start_pos, position))
    IN  (IF own.units < 0
         THEN {ProjectionRead("band", (start_pos - 1) % TOTAL_SEGMENTS, frame, renders)}
         ELSE {})
        \cup {ProjectionRead("sprite", n % TOTAL_SEGMENTS, frame, renders) :
                 n \in {m \in start_pos + 2 .. start_pos + RENDERING_DISTANCE :
                            HasSprite(m % TOTAL_SEGMENTS)}}

\* GameWindow.__init__ and the head of run: the loop is about to start its
\* first frame.  renders lists the start_pos of the render loops run, reads
\* the reads of projection fields made in the current frame, steps lists the sections of the loop body the current frame
\* has run; the other fields are locals of run and fields of the window.
RunInit ==
    [pc |-> "begin", steps |-> << >>, dt |-> 0, keys |-> {}, speed |-> 0,
     moving |-> FALSE, boost |-> 0, braking |-> FALSE, lap_flash |-> 0,
     performance_score |-> 0, previous_segment |-> 0,
     renders |-> << >>, reads |-> {}]

(***************************************************************************)
(* database.py: the score store.  The file is absent, holds text that      *)
(* json.load rejects, or holds the text json.dump wrote for a list of      *)
(* records: one (username, score) pair per record.                         *)
(***************************************************************************)
NoFile == [state |-> "absent", text |-> << >>]
BadFile == [state |-> "unparsable", text |-> << >>]

\* json.dump(scores, f, indent=2): the records are written one after another
RECURSIVE json_dump_records(_)
json_dump_records(scores) ==
    IF scores = << >> THEN << >>
    ELSE <<<<Head(scores).username, Head(scores).score>>>> \o json_dump_records(Tail(scores))

json_dump(scores) == [state |-> "json", text |-> json_dump_records(scores)]

\* json.load(f) on a text json_dump wrote
RECURSIVE json_load_records(_)
json_load_records(text) ==
    IF text = << >> THEN << >>
    ELSE <<[username |-> Head(text)[1], score |-> Head(text)[2]]>> \o json_load_records(Tail(text))

json_load(file) == json_load_records(file.text)

\* load_scores()
load_scores(file) ==
    IF file.state = "absent" THEN << >>
    ELSE IF file.state = "unparsable" THEN << >>
    ELSE json_load(file)

\* A variant of save_score that writes the new record alone.
save_score_Overwrite(file, username, score, io) ==
    LET scores == <<[username |-> username, score |-> score]>>
    IN  IF io = "ok" THEN json_dump(scores)
        ELSE IF io = "open_fails" THEN file
        ELSE BadFile

\* save_score(username, score): the file after the call.  io is what the
\* file system does: the write succeeds, open() raises OSError and leaves the
\* file alone, or the write raises OSError after open() has truncated it.
save_score(file, username, score, io) ==
    LET scores == Append(load_scores(file), [username |-> username, score |-> score])
    IN  IF io = "ok" THEN json_dump(scores)
        ELSE IF io = "open_fails" THEN file
        ELSE BadFile

SaveObsInit == [calls |-> 0, ok |-> FALSE, username |-> "", score |-> 0, before |-> << >>]

\* One call save_score(username, score), as GameWindow.run makes it when Save
\* Scores is clicked.
SaveScore(username, score, io) ==
    /\ Len(load_scores(scores_file)) < MaxSaved
    /\ scores_file' = save_score(scores_file, username, score, io)
    /\ save_obs' = [calls    |-> 1,
                    ok       |-> io = "ok",
                    username |-> username,
                    score    |-> score,
                    before   |-> load_scores(scores_file)]
    /\ UNCHANGED <<lapVars, trackVars, vehicleVars, obsCalls, loopVars>>

(***************************************************************************)
(* ui/menu.py: the leaderboard sort.  A list is a sequence, so the Python  *)
(* index i is the sequence index i + 1.                                    *)
(***************************************************************************)
\* the while loop of _insertion_sort and the store of the key after it
RECURSIVE insertion_shift(_, _, _, _)
insertion_shift(data, key, j, start) ==
    IF j >= start /\ key.score > data[j + 1].score
    THEN insertion_shift([data EXCEPT ![j + 2] = data[j + 1]], key, j - 1, start)
    ELSE [data EXCEPT ![j + 2] = key]

\* the for loop of _insertion_sort from index i on
RECURSIVE insertion_from(_, _, _, _)
insertion_from(data, i, start, end) ==
    IF i > end THEN data
    ELSE insertion_from(insertion_shift(data, data[i + 1], i - 1, start), i + 1, start, end)

\* _insertion_sort(data, start, end)
insertion_sort(data, start, end) == insertion_from(data, start + 1, start, end)

\* the three while loops of _merge, from (i, j, k) on
RECURSIVE merge_from(_, _, _, _, _, _)
merge_from(data, left, right, i, j, k) ==
    IF i < Len(left) /\ j < Len(right)
    THEN IF left[i + 1].score > right[j + 1].score
         THEN merge_from([data EXCEPT ![k + 1] = left[i + 1]], left, right, i + 1, j, k + 1)
         ELSE merge_from([data EXCEPT ![k + 1] = right[j + 1]], left, right, i, j + 1, k + 1)
    ELSE IF i < Len(left)
    THEN merge_from([data EXCEPT ![k + 1] = left[i + 1]], left, right, i + 1, j, k + 1)
    ELSE IF j < Len(right)
    THEN merge_from([data EXCEPT ![k + 1] = right[j + 1]], left, right, i, j + 1, k + 1)
    ELSE data

\* A variant of _merge that leaves the right run where it is.
merge_LeftOnly(data, start, mid, end) ==
    merge_from(data, SubSeq(data, start + 1, mid + 1), << >>, 0, 0, start)

\* _merge(data, start, mid, end)
merge(data, start, mid, end) ==
    merge_from(data, SubSeq(data, start + 1, mid + 1), SubSeq(data, mid + 2, end + 1),
               0, 0, start)

\* merge_sort_scores(data, start, end)
RECURSIVE merge_sort_scores(_, _, _)
merge_sort_scores(data, start, end) ==
    IF end - start + 1 <= INSERTION_RUN
    THEN insertion_sort(data, start, end)
    ELSE IF start < end
    THEN LET mid == (start + end) \div 2
             d1  == merge_sort_scores(data, start, mid)
             d2  == merge_sort_scores(d1, mid + 1, end)
         IN  merge(d2, start, mid, end)
    ELSE data

SortObsInit == [calls |-> 0, input |-> << >>]

\* One frame of the leaderboard screen: the main loop loads the scores and
\* draw_leaderboard sorts the loaded list in place.
DrawLeaderboard ==
    /\ LET loaded == load_scores(scores_file)
       IN  /\ score_data' = merge_sort_scores(loaded, 0, Len(loaded) - 1)
           /\ sort_obs' = [calls |-> 1, input |-> loaded]
    /\ UNCHANGED <<lapVars, trackVars, vehicleVars, q_obs, bucket_obs, reward_obs,
                   scores_file, save_obs, loopVars, buildVars>>

(***************************************************************************)
(* game/game_window.py: the forward pass of the render loop.  Y is the     *)
(* projected screen height of a line in pixels, taken here as an integer.  *)
(***************************************************************************)

\* if cur.Y >= maxy: continue, with the comparison turned strict
skipped_Strict(Y, maxy) == Y > maxy

\* if cur.Y >= maxy: continue
skipped(Y, maxy) == Y >= maxy

RECURSIVE forward_pass(_, _, _, _)
\* for n in range(start_pos, start_pos + RENDERING_DISTANCE): cur.clip = maxy;
\* a line not skipped lowers maxy to its Y and has its three quads drawn.
\* ys[k] is the Y project gave the k-th line of the pass.
forward_pass(ys, k, maxy, out) ==
    IF k > Len(ys) THEN out
    ELSE IF skipped(ys[k], maxy)
         THEN forward_pass(ys, k + 1, maxy,
                           Append(out, [Y |-> ys[k], clip |-> maxy, drawn |-> FALSE]))
         ELSE forward_pass(ys, k + 1, ys[k],
                           Append(out, [Y |-> ys[k], clip |-> maxy, drawn |-> TRUE]))

PassObsInit == [calls |-> 0, ys |-> << >>, out |-> << >>]

\* The Ys a pass meets: inside the window, on its lower edge, below it
PassYs == {300, 400, WINDOW_HEIGHT, 800}

RECURSIVE PassInputs(_)
PassInputs(n) ==
    IF n = 0 THEN {<< >>}
    ELSE PassInputs(n - 1) \cup
         {Append(ys, Y) : ys \in {x \in PassInputs(n - 1) : Len(x) = n - 1}, Y \in PassYs}

\* One frame's forward pass, maxy = WINDOW_HEIGHT before the loop.
RenderPass ==
    /\ pass_obs.calls < MaxPassCalls
    /\ \E ys \in PassInputs(MaxPass) :
          pass_obs' = [calls |-> pass_obs.calls + 1,
                       ys    |-> ys,
                       out   |-> forward_pass(ys, 1, WINDOW_HEIGHT, << >>)]
    /\ UNCHANGED <<lapVars, trackVars, vehicleVars, fnCalls, storeVars, loopVars,
                   road_lines, app>>

(***************************************************************************)
(* game/renderer.py: build_road_lines.  A colour is its (r, g, b); curve   *)
(* is in tenths; the sine-wave y of the hills is left out.                 *)
(***************************************************************************)
SURFACE_BLUE == <<127, 127, 127>>
SURFACE_GREY == <<0, 255, 255>>
WHITE_STREAK == <<255, 255, 255>>
BLACK_STREAK == <<0, 0, 0>>
DARK_ROAD == <<105, 105, 105>>
LIGHT_ROAD == <<108, 108, 108>>

\* the band taken from the segment index alone
band_PerSegment(i) == i % 2

\* band = (i // 3) % 2
band(i) == (i \div 3) % 2

\* if 300 < i < 700: line.curve = 0.5; if i > 1100: line.curve = -1.2
line_curve(i) ==
    IF i > 1100 THEN -12
    ELSE IF 300 < i /\ i < 700 THEN 5
    ELSE 0

\* The body of the loop of build_road_lines for segment i
build_line(i) ==
    [i              |-> i,
     z              |-> Line_z(i),
     SURFACE_COLOUR |-> IF band(i) # 0 THEN SURFACE_GREY ELSE SURFACE_BLUE,
     RUMBLE_COLOUR  |-> IF band(i) # 0 THEN WHITE_STREAK ELSE BLACK_STREAK,
     ROAD_COLOUR    |-> IF band(i) # 0 THEN LIGHT_ROAD ELSE DARK_ROAD,
     curve          |-> line_curve(i),
     sprite         |-> HasSprite(i)]

\* for i in range(TOTAL_SEGMENTS): ... lines.append(line)
BuildLine ==
    /\ Len(road_lines) < TOTAL_SEGMENTS
    /\ road_lines' = Append(road_lines, build_line(Len(road_lines)))
    /\ UNCHANGED <<lapVars, trackVars, vehicleVars, fnCalls, storeVars, loopVars,
                   pass_obs, app>>

(***************************************************************************)
(* main.py: AppState and the main loop; ui/customization.py; database.py.  *)
(* A parameter value is in tenths, a slider value in halves, so a modified *)
(* parameter base * (1 + value / 100) is in 1/2000.  The database is       *)
(* taken as reachable: every _connect succeeds.                            *)
(***************************************************************************)

\* The base values of STANDARD_PARAMETERS in the order of the dict, in tenths
STANDARD_PARAMETERS == <<5000, 10, 3, 35, 10, 10, 500, 10, 147, 25, 10, 10>>

\* The sliders of build_slider_tree, one per label of CUSTOM_LABELS
SliderIds == 1..Len(STANDARD_PARAMETERS)

\* Slider.handle_event on MOUSEMOTION, offset = handle_pos - x in pixels:
\* value = -50 + ratio * 100 with ratio = offset / SLIDER_WIDTH, in halves
Slider_value(offset) == offset - 100

\* calculate_modified_params: result[name] = base * (1 + pct), in 1/2000
calculate_modified_params(slider_values) ==
    [n \in SliderIds |-> STANDARD_PARAMETERS[n] * (200 + slider_values[n])]

\* populate_standard_parameters: the table holds the base values, in 1/2000
populate_standard_parameters == [n \in SliderIds |-> STANDARD_PARAMETERS[n] * 200]

RECURSIVE SumTo(_, _)
SumTo(table, n) == IF n = 0 THEN 0 ELSE table[n] + SumTo(table, n - 1)

\* SELECT AVG(value) FROM StandardParameters: the mean of the twelve rows,
\* in 1/24000 so that it is an integer
calculate_average_value(table) == SumTo(table, Len(STANDARD_PARAMETERS))

\* baseline_avg = calculate_average_value() or 1.0, read when the class
\* AppState is defined, after populate_standard_parameters()
baseline_avg == calculate_average_value(populate_standard_parameters)

\* A speed multiplier m is the number m * baseline_avg: 1.0 is MULT_ONE
MULT_ONE == baseline_avg

\* pct = ((new_avg - baseline_avg) / baseline_avg) * 100; change = pct / 100
calculated_change(new_avg) == new_avg - baseline_avg

NoGame == [started |-> FALSE]

AppInit ==
    [main_menu          |-> TRUE,
     customization_menu |-> FALSE,
     driver_menu        |-> FALSE,
     settings_menu      |-> FALSE,
     login_menu         |-> FALSE,
     logged_in_screen   |-> FALSE,
     leaderboard_menu   |-> FALSE,
     how_to_play_menu   |-> FALSE,
     user_logged_in     |-> FALSE,
     current_user       |-> "",
     speed_multiplier   |-> MULT_ONE,
     sliders            |-> [n \in SliderIds |-> 0],
     table              |-> populate_standard_parameters,
     game               |-> NoGame,
     last               |-> "none"]

\* The branch of the if / elif chain of the main loop that runs
Branch(a) ==
    IF a.game.started THEN "game"
    ELSE IF a.main_menu THEN "main_menu"
    ELSE IF a.customization_menu THEN "customization_menu"
    ELSE IF a.driver_menu THEN "driver_menu"
    ELSE IF a.settings_menu THEN "settings_menu"
    ELSE IF a.login_menu THEN "login_menu"
    ELSE IF a.logged_in_screen /\ ~a.main_menu THEN "logged_in_screen"
    ELSE IF a.how_to_play_menu THEN "how_to_play_menu"
    ELSE IF a.leaderboard_menu THEN "leaderboard_menu"
    ELSE "none"

appRest == <<lapVars, trackVars, vehicleVars, fnCalls, storeVars, loopVars,
             pass_obs, road_lines>>

\* cmd = draw_menu(screen, bg), cmd in 1..7.  Quick Start builds the
\* GameWindow with the multiplier, the user name and the login flag;
\* gw.run() leaves only through sys.exit().
MainMenu(cmd) ==
    /\ Branch(app) = "main_menu"
    /\ app' =
         IF cmd = 1
         THEN [app EXCEPT !.main_menu = FALSE,
                          !.game = [started          |-> TRUE,
                                    speed_multiplier |-> app.speed_multiplier,
                                    username         |-> app.current_user,
                                    logged_in        |-> app.user_logged_in],
                          !.last = "quick_start"]
         ELSE IF cmd = 2
         THEN [app EXCEPT !.customization_menu = TRUE, !.main_menu = FALSE,
                          !.last = "modify_vehicle"]
         ELSE IF cmd = 3
         THEN [app EXCEPT !.driver_menu = TRUE, !.main_menu = FALSE,
                          !.last = "modify_driver"]
         ELSE IF cmd = 4
         THEN [app EXCEPT !.settings_menu = TRUE, !.main_menu = FALSE,
                          !.last = "settings"]
         ELSE IF cmd = 5
         THEN IF app.logged_in_screen
              THEN [app EXCEPT !.main_menu = FALSE, !.last = "account"]
              ELSE [app EXCEPT !.login_menu = TRUE, !.main_menu = FALSE,
                               !.last = "account"]
         ELSE IF cmd = 6
         THEN [app EXCEPT !.how_to_play_menu = TRUE, !.main_menu = FALSE,
                          !.last = "how_to_play"]
         ELSE [app EXCEPT !.leaderboard_menu = TRUE, !.main_menu = FALSE,
                          !.last = "leaderboard"]
    /\ UNCHANGED appRest

\* draw_customization_menu on a click on Return to Menu: stay = False
CustomizationReturn ==
    /\ Branch(app) = "customization_menu"
    /\ app' = [app EXCEPT !.customization_menu = FALSE, !.main_menu = TRUE,
                          !.last = "return"]
    /\ UNCHANGED appRest

\* draw_customization_menu on a click on Save & Start: the sliders are read,
\* the table is updated, change is computed from the new average, and the
\* main loop stores it: if change != 1.0: state.speed_multiplier = change
CustomizationSave ==
    /\ Branch(app) = "customization_menu"
    /\ LET modified == calculate_modified_params(app.sliders)
           new_avg  == calculate_average_value(modified)
           change   == IF baseline_avg # 0 THEN calculated_change(new_avg) ELSE MULT_ONE
       IN  app' = [app EXCEPT !.table = modified,
                              !.speed_multiplier = IF change # MULT_ONE THEN change ELSE @,
                              !.last = "save"]
    /\ UNCHANGED appRest

\* draw_customization_menu on a mouse event off the two buttons:
\* root.handle_event(event) moves the handle of the slider being dragged
CustomizationDrag(n, offset) ==
    /\ Branch(app) = "customization_menu"
    /\ app' = [app EXCEPT !.sliders[n] = Slider_value(offset), !.last = "drag"]
    /\ UNCHANGED appRest

\* The screens that only lead back: stay = False on Return to Menu
LeaveScreen(screen) ==
    /\ Branch(app) = screen
    /\ app' = [app EXCEPT ![screen] = FALSE, !.main_menu = TRUE, !.last = "return"]
    /\ UNCHANGED appRest

\* result = run_login_screen(screen, bg)
LoginScreen(result) ==
    /\ Branch(app) = "login_menu"
    /\ app' = IF result.logged_in
              THEN [app EXCEPT !.login_menu = FALSE,
                               !.user_logged_in = TRUE,
                               !.current_user = result.username,
                               !.logged_in_screen = TRUE,
                               !.main_menu = TRUE,
                               !.last = "login"]
              ELSE [app EXCEPT !.login_menu = FALSE, !.main_menu = TRUE,
                               !.last = "login"]
    /\ UNCHANGED appRest

\* The slider and positions of its handle the player drags to: both ends,
\* the centre and one pixel left of the centre
DragSliders == {1, 2}
DragOffsets == {0, 99, 100, 200}
\* What run_login_screen returns: Return to Menu or Sign Up, or a login
LoginResults == {[logged_in |-> FALSE, username |-> ""],
                 [logged_in |-> TRUE, username |-> "ann"]}
\* The screens LeaveScreen leaves
StayScreens == {"driver_menu", "settings_menu", "logged_in_screen",
                "how_to_play_menu", "leaderboard_menu"}
MenuCommands == 1..7

\* No call has been made on any of the functions called on their own.
InitCalls ==
    /\ q_obs = QObsInit
    /\ bucket_obs = BucketObsInit
    /\ reward_obs = RewardObsInit
    /\ score_data = << >>
    /\ sort_obs = SortObsInit
    /\ scores_file = NoFile
    /\ save_obs = SaveObsInit
    /\ render_obs = RenderObsInit
    /\ run = RunInit
    /\ pass_obs = PassObsInit
    /\ road_lines = << >>
    /\ app = AppInit

(***************************************************************************)
(* GameWindow.run: player input and road position                          *)
(***************************************************************************)
\* the local `speed` of one frame: the sum of the held keys' contributions
PlayerSpeed(keys, multiplier) ==
      (IF "UP" \in keys THEN (SEGMENT_LENGTH * multiplier) \div 4 ELSE 0)
    + (IF "DOWN" \in keys THEN -SEGMENT_LENGTH ELSE 0)
    + (IF "RIGHT" \in keys THEN SEGMENT_LENGTH
       ELSE IF "LEFT" \in keys THEN SEGMENT_LENGTH
       ELSE IF "W" \in keys THEN SEGMENT_LENGTH * 3
       ELSE 0)
    + (IF "TAB" \in keys THEN SEGMENT_LENGTH ELSE 0)

\* A variant of the road-position update that only wraps positions past the
\* end of the track.
MovePlayer_ForwardWrapOnly(position, speed) ==
    IF position + speed >= TRACK_LEN THEN position + speed - TRACK_LEN
    ELSE position + speed

\* POSITION = (POSITION + speed) % TRACK_LEN
MovePlayer(position, speed) == (position + speed) % TRACK_LEN

\* One frame of GameWindow.run, as far as the track positions go: the keys
\* give the frame's speed, POSITION advances and wraps, and the agent is
\* updated with the new POSITION and a road half-width.  (The half-width is
\* read from the projection cache of the camera's segment; here it is an
\* input.)  The vehicle physics and the lap tracker, which this part of the
\* frame does not read, have their own specifications.
Frame(keys, road_half_w, choice) ==
    /\ frames < MaxFrames
    /\ ChoicePossible(ai.epsilon, choice)
    /\ LET speed == PlayerSpeed(keys, speed_multiplier)
           pos   == MovePlayer(POSITION, speed)
           r     == QLearningAI_update(ai, pos, road_half_w, choice)
       IN  /\ POSITION' = pos
           /\ ai' = r.self
           /\ ai_obs' = AiObs(ai, pos, road_half_w, choice, r)
    /\ frames' = frames + 1
    /\ UNCHANGED <<callVars, speed_multiplier, lapVars, vehicleVars>>

\* GameWindow.__init__ and the first lines of run
InitTrack ==
    /\ POSITION = 0
    /\ frames = 0
    /\ \E game \in Games :
          /\ speed_multiplier = game[1]
          /\ ai = QLearningAI_init(game[2])
    /\ ai_obs = AiObsInit
    /\ InitCalls
    /\ lap = LapTracker_init
    /\ lap_obs = LapObsInit
    /\ vehicle = VehicleState_init
    /\ vehicle_obs = VehicleObsInit

NextTrack ==
    \E keys \in KeyCombos, road_half_w \in RoadHalfWidths, choice \in Choices :
        Frame(keys, road_half_w, choice)

SpecTrack == InitTrack /\ [][NextTrack]_vars

(***************************************************************************)
(* GameWindow.run, section by section.  One action per section of the loop *)
(* body, in the order of the text; run.pc is the section about to run.     *)
(***************************************************************************)
\* A variant of the loop body with the agent's update placed before the lap
\* tracker's.
After_AiBeforeLap(section) ==
    CASE section = "begin"   -> "input"
      [] section = "input"   -> "physics"
      [] section = "physics" -> "road"
      [] section = "road"    -> "ai"
      [] section = "ai"      -> "lap"
      [] section = "lap"     -> "score"
      [] section = "score"   -> "draw"
      [] section = "draw"    -> "events"
      [] section = "events"  -> "present"
      [] section = "present" -> "begin"

\* the section of the loop body that follows a section
After(section) ==
    CASE section = "begin"   -> "input"
      [] section = "input"   -> "physics"
      [] section = "physics" -> "road"
      [] section = "road"    -> "lap"
      [] section = "lap"     -> "ai"
      [] section = "ai"      -> "score"
      [] section = "score"   -> "draw"
      [] section = "draw"    -> "events"
      [] section = "events"  -> "present"
      [] section = "present" -> "begin"

\* the section has run: it is logged and control moves on
Done(r, section) == [r EXCEPT !.pc = After(section), !.steps = Append(@, section)]

\* The head of the loop body: dt is sampled, the clock ticks, the background
\* is blitted and QUIT events are read.
LoopBegin(dt) ==
    /\ run.pc = "begin"
    /\ frames < MaxLoopFrames
    /\ run' = [Done([run EXCEPT !.steps = << >>], "begin") EXCEPT !.dt = dt, !.reads = {}]
    /\ UNCHANGED <<lapVars, trackVars, vehicleVars, obsCalls, storeVars, render_obs>>

\* Player input: the keys held give speed, moving, boost and braking, and wear
\* the tyres.
LoopInput(keys) ==
    /\ run.pc = "input"
    /\ run' = [Done(run, "input") EXCEPT
                   !.keys    = keys,
                   !.speed   = PlayerSpeed(keys, speed_multiplier),
                   !.moving  = keys \cap {"UP", "DOWN", "LEFT", "RIGHT"} # {},
                   !.boost   = (IF "UP" \in keys THEN 500 ELSE 0)
                                   + (IF "TAB" \in keys THEN 500 ELSE 0),
                   !.braking = "DOWN" \in keys]
    /\ vehicle' = [vehicle EXCEPT !.tire_wear =
                       @ + (IF "UP" \in keys THEN 10 ELSE 0)
                         + (IF "DOWN" \in keys THEN 10 ELSE 0)
                         + (IF "TAB" \in keys THEN 100 ELSE 0)]
    /\ UNCHANGED <<lapVars, trackVars, vehicle_obs, obsCalls, storeVars, render_obs>>

\* Physics: self.vehicle.update(dt, moving, throttle_boost=boost, braking=braking)
LoopPhysics ==
    /\ run.pc = "physics"
    /\ vehicle' = VehicleState_update(vehicle, run.dt, run.moving, run.boost, run.braking)
    /\ vehicle_obs' = [calls |-> vehicle_obs.calls + 1, op |-> "update", dt |-> run.dt,
                       moving |-> run.moving, throttle_boost |-> run.boost,
                       braking |-> run.braking, params |-> << >>, before |-> vehicle]
    /\ run' = Done(run, "physics")
    /\ UNCHANGED <<lapVars, trackVars, obsCalls, storeVars, render_obs>>

\* Road position: POSITION = (POSITION + speed) % TRACK_LEN, and player_x is
\* clamped against the W of the camera's line
LoopRoad ==
    /\ run.pc = "road"
    /\ POSITION' = MovePlayer(POSITION, run.speed)
    /\ run' = [Done(run, "road") EXCEPT
                   !.reads = @ \cup {ProjectionRead("clamp", POSITION' \div SEGMENT_LENGTH,
                                                    frames + 1, run.renders)}]
    /\ UNCHANGED <<lapVars, speed_multiplier, frames, ai, ai_obs, vehicleVars,
                   obsCalls, storeVars, render_obs>>

\* Lap: self.lap_tracker.update(dt, POSITION), dt in tenths of a second here
LoopLap ==
    /\ run.pc = "lap"
    /\ LET dt == run.dt \div 100
           r  == LapTracker_update(lap, dt, POSITION)
       IN  /\ lap' = r.self
           /\ lap_obs' = [pos        |-> POSITION,
                          prev_pos   |-> lap_obs.pos,
                          ret        |-> r.ret,
                          fired_time |-> IF r.ret THEN lap.lap_time + dt ELSE NoValue,
                          held       |-> IF r.ret THEN TRUE
                                         ELSE lap_obs.held /\ Near(POSITION)]
           /\ run' = [Done(run, "lap") EXCEPT !.lap_flash = IF r.ret THEN 25 ELSE @]
    /\ UNCHANGED <<trackVars, vehicleVars, obsCalls, storeVars, render_obs>>

\* AI Q-learning update: self.ai.update(POSITION, road_half_w), with
\* road_half_w read from the W of the camera's line
LoopAi(road_half_w, choice) ==
    /\ run.pc = "ai"
    /\ ChoicePossible(ai.epsilon, choice)
    /\ LET r == QLearningAI_update(ai, POSITION, road_half_w, choice)
       IN  /\ ai' = r.self
           /\ ai_obs' = AiObs(ai, POSITION, road_half_w, choice, r)
    /\ run' = [Done(run, "ai") EXCEPT
                   !.reads = @ \cup {ProjectionRead("road_half_w", POSITION \div SEGMENT_LENGTH,
                                                    frames + 1, run.renders)}]
    /\ UNCHANGED <<lapVars, POSITION, speed_multiplier, frames, vehicleVars,
                   obsCalls, storeVars, render_obs>>

\* Score: a new segment reached at speed adds SEGMENT_LENGTH * velocity
\* (performance_score is in thousandths).
LoopScore ==
    /\ run.pc = "score"
    /\ LET cur_seg == Trunc(vehicle.total_distance, 1000 * SEGMENT_LENGTH)
       IN  run' = IF cur_seg # run.previous_segment /\ Abs(vehicle.velocity) > 100
                  THEN [Done(run, "score") EXCEPT
                            !.performance_score = @ + SEGMENT_LENGTH * vehicle.velocity,
                            !.previous_segment  = cur_seg]
                  ELSE Done(run, "score")
    /\ UNCHANGED <<lapVars, trackVars, vehicleVars, obsCalls, storeVars, render_obs>>

\* Road rendering, sprites and overlay: the render loop projects the lines
\* ahead of the camera; _draw_lap_flash counts the flash down.
LoopDraw ==
    /\ run.pc = "draw"
    /\ render_obs' = RenderObs(POSITION)
    /\ LET renders == Append(run.renders, POSITION \div SEGMENT_LENGTH)
       IN  run' = [Done(run, "draw") EXCEPT
                       !.renders   = renders,
                       !.reads     = @ \cup DrawReads(POSITION, frames + 1, renders),
                       !.lap_flash = IF @ > 0 THEN @ - run.dt \div 100 ELSE @]
    /\ UNCHANGED <<lapVars, trackVars, vehicleVars, obsCalls, storeVars>>

\* Events: a click on Save Scores by a logged-in player saves the score, a
\* click on Quit ends the program.
LoopEvents(click) ==
    /\ run.pc = "events"
    /\ IF click = "save"
       THEN /\ scores_file' = save_score(scores_file, LoopUser, run.performance_score, "ok")
            /\ save_obs' = [calls    |-> 1,
                            ok       |-> TRUE,
                            username |-> LoopUser,
                            score    |-> run.performance_score,
                            before   |-> load_scores(scores_file)]
       ELSE UNCHANGED storeVars
    /\ run' = IF click = "quit"
              THEN [run EXCEPT !.pc = "exit", !.steps = Append(@, "events")]
              ELSE Done(run, "events")
    /\ UNCHANGED <<lapVars, trackVars, vehicleVars, obsCalls, render_obs>>

\* pygame.display.update(): the frame is presented and the loop starts over.
LoopPresent ==
    /\ run.pc = "present"
    /\ frames' = frames + 1
    /\ run' = Done(run, "present")
    /\ UNCHANGED <<lapVars, POSITION, speed_multiplier, ai, ai_obs, vehicleVars,
                   obsCalls, storeVars, render_obs>>

\* GameWindow.__init__ and the first lines of run, for a logged-in player
InitLoop ==
    /\ POSITION = 0
    /\ frames = 0
    /\ speed_multiplier \in LoopMultipliers
    /\ ai = QLearningAI_init(TRACK_LEN \div 20)
    /\ ai_obs = AiObsInit
    /\ InitCalls
    /\ lap = LapTracker_init
    /\ lap_obs = LapObsInit
    /\ vehicle = VehicleState_init
    /\ vehicle_obs = VehicleObsInit

NextLoop ==
    \/ \E dt \in LoopDts : LoopBegin(dt)
    \/ \E keys \in KeyCombos : LoopInput(keys)
    \/ LoopPhysics
    \/ LoopRoad
    \/ LoopLap
    \/ \E road_half_w \in LoopHalfWidths, choice \in LoopChoices : LoopAi(road_half_w, choice)
    \/ LoopScore
    \/ LoopDraw
    \/ \E click \in {"none", "save", "quit"} : LoopEvents(click)
    \/ LoopPresent

SpecLoop == InitLoop /\ [][NextLoop]_vars

(***************************************************************************)
(* The vehicle alone                                                       *)
(***************************************************************************)
\* The VehicleState GameWindow constructs.
InitVehicle ==
    /\ vehicle = VehicleState_init
    /\ vehicle_obs = VehicleObsInit
    /\ lap = LapTracker_init
    /\ lap_obs = LapObsInit
    /\ POSITION = 0
    /\ speed_multiplier = 4
    /\ frames = 0
    /\ ai = QLearningAI_init(TRACK_LEN \div 20)
    /\ ai_obs = AiObsInit
    /\ InitCalls

NextVehicle ==
    \/ \E dt \in VehicleDts, throttle_boost \in Boosts, braking \in BOOLEAN :
            VehicleUpdate(dt, TRUE, throttle_boost, braking)
    \/ \E dt \in VehicleDts, throttle_boost \in Boosts, braking \in BOOLEAN :
            VehicleUpdate(dt, FALSE, throttle_boost, braking)
    \/ \E params \in ParamDicts : ApplyVehicleParams(params)

SpecVehicle == InitVehicle /\ [][NextVehicle]_vars

(***************************************************************************)
(* A long run of the agent alone                                           *)
(***************************************************************************)
\* One call of QLearningAI.update outside the frame loop.
AiUpdate(player_pos, road_half_w, choice) ==
    /\ frames < MaxAiTicks
    /\ ChoicePossible(ai.epsilon, choice)
    /\ LET r == QLearningAI_update(ai, player_pos, road_half_w, choice)
       IN  /\ ai' = r.self
           /\ ai_obs' = AiObs(ai, player_pos, road_half_w, choice, r)
    /\ frames' = frames + 1
    /\ UNCHANGED <<callVars, POSITION, speed_multiplier, lapVars, vehicleVars>>

\* One call of QLearningAI.update in a short run that tries every road
\* half-width against every action.
LaneUpdate(road_half_w, choice) ==
    /\ frames < MaxLaneTicks
    /\ AiUpdate(POSITION, road_half_w, choice)

\* The agent GameWindow constructs, before its first update.
InitAi ==
    /\ POSITION = 0
    /\ speed_multiplier = 4
    /\ frames = 0
    /\ ai = QLearningAI_init(TRACK_LEN \div 20)
    /\ ai_obs = AiObsInit
    /\ InitCalls
    /\ lap = LapTracker_init
    /\ lap_obs = LapObsInit
    /\ vehicle = VehicleState_init
    /\ vehicle_obs = VehicleObsInit

\* The agent is updated against a player standing at the start line on a
\* road of the nominal half-width; it exploits whenever the draw allows it
\* (epsilon < 1) and coasts on the one tick where it must explore.
NextAi ==
    AiUpdate(POSITION, ROAD_HALF, IF ai.epsilon < EPS_ONE THEN GREEDY ELSE 4)

SpecAi == InitAi /\ [][NextAi]_vars

\* The half-widths are the ones GameWindow.run can hand over: current_line.W
\* / 2 is 0 before the first projection, negative when the line was last
\* projected from inside its segment, and positive otherwise.
InitLane == InitAi

NextLane ==
    \E road_half_w \in LaneHalfWidths, choice \in Choices : LaneUpdate(road_half_w, choice)

SpecLane == InitLane /\ [][NextLane]_vars

\* A fresh agent whose _update_q is called with arguments from QCalls.
InitQ == InitAi

NextQ == \E c \in QCalls : QUpdate(c[1], c[2], c[3], c[4])

SpecQ == InitQ /\ [][NextQ]_vars

\* _bucket is called with the ranges of _make_state.
InitBucket == InitAi

NextBucket ==
    \E rg \in BucketRanges : \E value \in BucketValues(rg[1], rg[2]) :
        BucketCall(value, rg[1], rg[2])

SpecBucket == InitBucket /\ [][NextBucket]_vars

\* _compute_reward is called with arguments around its thresholds.
InitReward == InitAi

NextReward ==
    \E ai_speed \in RewardSpeeds, ai_lane_x \in RewardLanes, ai_pos \in RewardAiPositions,
       lead \in RewardLeads, on_road \in BOOLEAN :
        RewardCall(ai_speed, ai_lane_x, (ai_pos + lead) % TRACK_LEN, ai_pos, on_road)

SpecReward == InitReward /\ [][NextReward]_vars

\* The leaderboard screen is opened on a list of loaded scores.
InitSort ==
    /\ POSITION = 0
    /\ speed_multiplier = 4
    /\ frames = 0
    /\ ai = QLearningAI_init(TRACK_LEN \div 20)
    /\ ai_obs = AiObsInit
    /\ lap = LapTracker_init
    /\ lap_obs = LapObsInit
    /\ vehicle = VehicleState_init
    /\ vehicle_obs = VehicleObsInit
    /\ q_obs = QObsInit
    /\ bucket_obs = BucketObsInit
    /\ reward_obs = RewardObsInit
    /\ score_data = << >>
    /\ sort_obs = SortObsInit
    /\ \E l \in ScoreLists : scores_file = json_dump(l)
    /\ save_obs = SaveObsInit
    /\ render_obs = RenderObsInit
    /\ run = RunInit
    /\ pass_obs = PassObsInit
    /\ road_lines = << >>
    /\ app = AppInit

NextSort == DrawLeaderboard

SpecSort == InitSort /\ [][NextSort]_vars

\* The game starts with no score file, with one that does not parse, or with
\* an empty list; scores are then saved.
InitStore ==
    /\ POSITION = 0
    /\ speed_multiplier = 4
    /\ frames = 0
    /\ ai = QLearningAI_init(TRACK_LEN \div 20)
    /\ ai_obs = AiObsInit
    /\ lap = LapTracker_init
    /\ lap_obs = LapObsInit
    /\ vehicle = VehicleState_init
    /\ vehicle_obs = VehicleObsInit
    /\ q_obs = QObsInit
    /\ bucket_obs = BucketObsInit
    /\ reward_obs = RewardObsInit
    /\ score_data = << >>
    /\ sort_obs = SortObsInit
    /\ scores_file \in {NoFile, BadFile, json_dump(<< >>)}
    /\ save_obs = SaveObsInit
    /\ render_obs = RenderObsInit
    /\ run = RunInit
    /\ pass_obs = PassObsInit
    /\ road_lines = << >>
    /\ app = AppInit

NextStore ==
    \E username \in SavedNames, score \in SavedScores,
       io \in {"ok", "open_fails", "write_fails"} :
        SaveScore(username, score, io)

SpecStore == InitStore /\ [][NextStore]_vars

InitLap ==
    /\ lap = LapTracker_init
    /\ lap_obs = LapObsInit
    /\ vehicle = VehicleState_init
    /\ vehicle_obs = VehicleObsInit
    /\ POSITION = 0
    /\ speed_multiplier = 4
    /\ frames = 0
    /\ ai = QLearningAI_init(TRACK_LEN \div 20)
    /\ ai_obs = AiObsInit
    /\ InitCalls

NextLap == \E dt \in LapDts, track_pos \in LapPositions : LapUpdate(dt, track_pos)

SpecLap == InitLap /\ [][NextLap]_vars

(***************************************************************************)
(* The forward pass on its own                                             *)
(***************************************************************************)
InitPass == InitAi
NextPass == RenderPass
SpecPass == InitPass /\ [][NextPass]_vars

(***************************************************************************)
(* build_road_lines on its own                                             *)
(***************************************************************************)
InitBuild == InitAi
NextBuild == BuildLine
SpecBuild == InitBuild /\ [][NextBuild]_vars

(***************************************************************************)
(* The main loop of main.py                                                *)
(***************************************************************************)
InitApp == InitAi
NextApp ==
    \/ \E cmd \in MenuCommands : MainMenu(cmd)
    \/ CustomizationReturn
    \/ CustomizationSave
    \/ \E n \in DragSliders, offset \in DragOffsets : CustomizationDrag(n, offset)
    \/ \E screen \in StayScreens : LeaveScreen(screen)
    \/ \E result \in LoginResults : LoginScreen(result)
SpecApp == InitApp /\ [][NextApp]_vars

(***************************************************************************)
(* C1  After a lap was counted, as long as every later update sees the     *)
(* track position inside the trigger zone [0, 3*SEGMENT_LENGTH), no        *)
(* further lap is counted, however much lap time accumulates.              *)
(***************************************************************************)
C1_OncePerCrossing ==
    [][(lap_obs.held /\ Near(lap_obs'.pos)) => lap'.lap_count = lap.lap_count]_vars

\* A lap was counted, the position stayed in the zone on later updates, more
\* than 2.0 s accumulated again, and the last update counted nothing.
C1_Witness ==
    /\ lap_obs.held
    /\ ~lap_obs.ret
    /\ Near(lap_obs.pos)
    /\ lap.lap_time > LAP_MIN_TIME
    /\ lap.lap_count = 1

(***************************************************************************)
(* C2  LapTracker.update fires a lap only on an Away-to-Near transition    *)
(* (the previous update, if any, saw the position outside the zone and     *)
(* this one sees it inside) and only with more than 2.0 s of lap time.     *)
(***************************************************************************)
C2_FiresOnlyOnEntry ==
    lap_obs.ret =>
        /\ Near(lap_obs.pos)
        /\ lap_obs.prev_pos = NoValue \/ ~Near(lap_obs.prev_pos)
        /\ lap_obs.fired_time > LAP_MIN_TIME

C6_EpsilonDecay ==
    /\ [](frames = 0 => ai.epsilon = EPS_ONE)
    /\ [](frames = 1 => 10000 * ai.epsilon = 9995 * EPS_ONE)
    /\ [](20 * ai.epsilon >= EPS_ONE)
    /\ [][frames' # frames =>
            /\ ai'.epsilon = Max2(EPS_ONE \div 20, (ai.epsilon * 9995) \div 10000)
            /\ ai'.epsilon <= ai.epsilon]_vars

\* The floor has been reached and the agent has been updated at the floor.
C6_Witness ==
    /\ 20 * ai.epsilon = EPS_ONE
    /\ frames = MaxAiTicks

(***************************************************************************)
(* C7  The Q-table starts empty; every row holds a value for exactly the   *)
(* five actions; an entry never updated reads 0; every key is a triple of  *)
(* buckets in 0..4, so there are at most 125 rows; the rows an update     *)
(* reads or writes exist afterwards.                                       *)
(***************************************************************************)
IsBucketTriple(s) ==
    /\ DOMAIN s = 1 .. 3
    /\ \A i \in 1 .. 3 : s[i] \in 0 .. 4

C7_QTableWellFormed ==
    /\ frames = 0 => DOMAIN ai.q = {}
    /\ \A s \in DOMAIN ai.q :
          /\ IsBucketTriple(s)
          /\ DOMAIN ai.q[s] = 0 .. 4
          /\ \A a \in 0 .. 4 : <<s, a>> \notin ai_obs.written => ai.q[s][a] = 0
    /\ ai_obs.used \subseteq DOMAIN ai.q
    /\ ai.prev_state # NoState => IsBucketTriple(ai.prev_state)
    /\ Cardinality(DOMAIN ai.q) <= 125

\* Three rows exist, one of them for the top speed bucket, and an entry has
\* been updated to a non-zero value.
C7_Witness ==
    /\ Cardinality(DOMAIN ai.q) >= 3
    /\ \E s \in DOMAIN ai.q : s[1] = 4
    /\ \E w \in ai_obs.written : ai.q[w[1]][w[2]] # 0

(***************************************************************************)
(* C8  On every update after the first, the entry of the previous tick's   *)
(* (state, action) becomes old + 0.15 * (r + 0.92 * max Q[s'] - old), with *)
(* s' and r the state and reward of this tick, and no other entry changes; *)
(* on the first update no entry changes.                                   *)
(***************************************************************************)

C8_TdUpdate ==
    [][frames' # frames =>
        LET ps     == ai.prev_state
            pa     == ai.prev_action
            s2     == ai_obs'.state
            r      == ai_obs'.reward * Q_PER_REWARD
            old    == QVal(ai.q, ps, pa)
            best   == CHOOSE m \in {QVal(ai.q, s2, a) : a \in 0 .. 4} :
                          \A a \in 0 .. 4 : QVal(ai.q, s2, a) <= m
            target == old + (15 * (r + (92 * best) \div 100 - old)) \div 100
        IN  /\ \A s \in DOMAIN ai.q \cup DOMAIN ai'.q : \A a \in 0 .. 4 :
                  QVal(ai'.q, s, a) =
                      IF ps # NoState /\ s = ps /\ a = pa THEN target
                      ELSE QVal(ai.q, s, a)
            /\ ps # NoState => ps \in DOMAIN ai'.q
            /\ ps = NoState => \A s \in DOMAIN ai'.q : \A a \in 0 .. 4 : ai'.q[s][a] = 0
    ]_vars

\* Two updates have been applied, the second to a state other than the one
\* just observed, and an entry holds a non-zero value.
C8_Witness ==
    /\ frames = 3
    /\ Cardinality(ai_obs.written) = 2
    /\ \A w \in ai_obs.written : ai.q[w[1]][w[2]] # 0

(***************************************************************************)
(* C10 The gap used for the gap bucket and for the reward is congruent to  *)
(* player - ai modulo TRACK_LEN and lies in (-TRACK_LEN/2, TRACK_LEN/2];   *)
(* TRACK_LEN is subtracted only when the raw modulo gap exceeds            *)
(* TRACK_LEN/2; player at 100 and agent at TRACK_LEN-50 give 150.          *)
(***************************************************************************)
IsSignedGap(g, player_pos, ai_pos) ==
    LET raw == (player_pos - ai_pos) % TRACK_LEN
    IN  /\ (g - (player_pos - ai_pos)) % TRACK_LEN = 0
        /\ -TRACK_LEN < 2 * g /\ 2 * g <= TRACK_LEN
        /\ g # raw => 2 * raw > TRACK_LEN
        /\ (player_pos = 100 /\ ai_pos = TRACK_LEN - 50) => g = 150

\* player positions at and around half a lap from the agent
GapProbes(ai_pos) ==
    {0, 100, ai_pos,
     (ai_pos + TRACK_LEN \div 2) % TRACK_LEN,
     (ai_pos + TRACK_LEN \div 2 + 1) % TRACK_LEN,
     (ai_pos + TRACK_LEN - 1) % TRACK_LEN}

C10_SignedGap ==
    /\ frames > 0 =>
          /\ IsSignedGap(ai_obs.gap, ai_obs.player_pos, ai_obs.ai_pos)
          /\ IsSignedGap(ai_obs.reward_gap, ai_obs.player_pos, ai_obs.ai_pos)
          /\ ai_obs.state[3] = Min2(4, (5 * (2 * ai_obs.gap + TRACK_LEN)) \div (2 * TRACK_LEN))
    /\ \A p \in GapProbes(ai.position) :
          /\ IsSignedGap(make_state_gap(p, ai.position), p, ai.position)
          /\ IsSignedGap(compute_reward_gap(p, ai.position), p, ai.position)

\* The update saw the player at 100 and the agent at TRACK_LEN - 50.
C10_Witness ==
    /\ ai_obs.player_pos = 100
    /\ ai_obs.ai_pos = TRACK_LEN - 50
    /\ ai_obs.gap = 150
    /\ ai_obs.reward_gap = 150

(***************************************************************************)
(* C4  Whatever the sequence of VehicleState.update and                    *)
(* apply_vehicle_params calls (any dt, throttle boost, braking flag and    *)
(* base engine force), the velocity stays in [MIN_VELOCITY, MAX_VELOCITY]  *)
(* = [0, 600] m/s.                                                         *)
(***************************************************************************)
C4_VelocityClamped ==
    /\ 0 <= vehicle.velocity
    /\ vehicle.velocity <= 600 * 1000

\* The engine force was raised through apply_vehicle_params and the last
\* update would have taken the velocity past 600 m/s.
C4_Witness ==
    /\ vehicle_obs.op = "update"
    /\ vehicle_obs.moving
    /\ vehicle.base_engine_force > ENGINE_FORCE
    /\ vehicle_obs.before.velocity
           + (vehicle.acceleration * vehicle_obs.dt) \div 2000 > 600 * 1000
    /\ vehicle.velocity = 600 * 1000

(***************************************************************************)
(* C5  An update with moving = False changes no field of the vehicle but   *)
(* lap_time, which grows by dt: velocity, position and every derived       *)
(* metric keep their values.                                               *)
(***************************************************************************)
C5_IdleUpdateFrozen ==
    [][(/\ vehicle_obs'.calls # vehicle_obs.calls
        /\ vehicle_obs'.op = "update"
        /\ ~vehicle_obs'.moving)
       => vehicle' = [vehicle EXCEPT !.lap_time = vehicle.lap_time + vehicle_obs'.dt]]_vars

\* An idle update of non-zero dt was made on a vehicle that is rolling and
\* whose derived metrics are non-zero.
C5_Witness ==
    /\ vehicle_obs.op = "update"
    /\ ~vehicle_obs.moving
    /\ vehicle_obs.dt > 0
    /\ vehicle.velocity > 0
    /\ vehicle.position > 0
    /\ vehicle.acceleration > 0
    /\ vehicle.fuel_consumption_rate > 0
    /\ vehicle.lap_time = vehicle_obs.before.lap_time + vehicle_obs.dt
    /\ vehicle.velocity = vehicle_obs.before.velocity

(***************************************************************************)
(* C9  When _update_q is called repeatedly with the same state, action,    *)
(* reward and next state and the value V of the next state does not        *)
(* change, Q[s,a] moves monotonically toward reward + gamma * V and never  *)
(* past it.  It moves in the direction of reward, toward                   *)
(* reward / (1 - gamma), when V is 0 and the entry started from 0.         *)
(***************************************************************************)
C9_ApproachesTdTarget ==
    q_obs.streak >= 2 =>
        LET c      == q_obs.last
            r      == c[3] * 1000
            old    == q_obs.q_before
            new    == QVal(ai.q, c[1], c[2])
            target == r + (92 * q_obs.v) \div 100
            limit  == (r * 100) \div (100 - 92)
        IN  /\ old <= target => (old <= new /\ new <= target)
            /\ old >= target => (target <= new /\ new <= old)
            \* a step is lost only to the rounding of the 1/30000 grid
            /\ (target - old >= 7 \/ old > target) => new # old
            /\ (q_obs.v = 0 /\ q_obs.q_first = 0) =>
                   /\ r > 0 => new >= old
                   /\ r < 0 => new <= old
                   /\ Abs(new - limit) <= Abs(old - limit)

\* A call was repeated against a next state of non-zero value and moved the
\* entry up although the reward is negative.
C9_Witness ==
    /\ q_obs.streak >= 2
    /\ q_obs.v > 0
    /\ q_obs.last[3] < 0
    /\ QVal(ai.q, q_obs.last[1], q_obs.last[2]) > q_obs.q_before
    /\ q_obs.q_before > 0

\* C9 as the specification words it: in every such run Q[s,a] moves in the
\* direction of reward and no further from reward / (1 - gamma).
C9_ApproachesRewardOverOneMinusGamma ==
    q_obs.streak >= 2 =>
        LET c     == q_obs.last
            r     == c[3] * 1000
            old   == q_obs.q_before
            new   == QVal(ai.q, c[1], c[2])
            limit == (r * 100) \div (100 - 92)
        IN  /\ r > 0 => new >= old
            /\ r < 0 => new <= old
            /\ Abs(new - limit) <= Abs(old - limit)

(***************************************************************************)
(* C11  _bucket(value, min, max, 5) returns an integer in 0..4 for every   *)
(* value: 0 below min, 4 at and above max, and inside [min, max) the index *)
(* of the equal-width fifth that contains the value; it is non-decreasing  *)
(* in value.                                                               *)
(***************************************************************************)
C11_BucketIndex ==
    bucket_obs.calls > 0 =>
        LET b == bucket_obs
            w == b.max_v - b.min_v
        IN  /\ b.ret \in 0 .. 4
            /\ b.value < b.min_v => b.ret = 0
            /\ b.value >= b.max_v => b.ret = 4
            /\ (b.min_v <= b.value /\ b.value < b.max_v) =>
                   /\ b.ret * w <= 5 * (b.value - b.min_v)
                   /\ 5 * (b.value - b.min_v) < (b.ret + 1) * w
            /\ (/\ b.calls > 1
                /\ b.prev_min = b.min_v /\ b.prev_max = b.max_v
                /\ b.prev_value <= b.value) => b.prev_ret <= b.ret

\* A value below min was followed by the value max of the same range.
C11_Witness ==
    /\ bucket_obs.calls > 1
    /\ bucket_obs.prev_min = bucket_obs.min_v /\ bucket_obs.prev_max = bucket_obs.max_v
    /\ bucket_obs.prev_value < bucket_obs.min_v /\ bucket_obs.prev_ret = 0
    /\ bucket_obs.value = bucket_obs.max_v /\ bucket_obs.ret = 4

(***************************************************************************)
(* C12  _compute_reward returns 2.0 * speed / MAX_SPEED, less 3.0 when off *)
(* the road, plus 0.3 when |lane| < 0.6 * ROAD_HALF and less 0.5           *)
(* otherwise, plus 1.0 when 0 < gap < 0.1 * TRACK_LEN, less 1.0 when       *)
(* gap > 0.3 * TRACK_LEN, where gap is the player-minus-agent distance     *)
(* taken the short way round the track, in (-TRACK_LEN/2, TRACK_LEN/2].    *)
(* Rewards are counted in thirtieths.                                      *)
(***************************************************************************)
C12_RewardFormula ==
    reward_obs.calls > 0 =>
        LET o    == reward_obs
            d    == o.player_pos - o.ai_pos
            gap  == CHOOSE g \in {d - 640000, d, d + 640000} :
                        -640000 < 2 * g /\ 2 * g <= 640000
            lane == IF o.ai_lane_x < 0 THEN -o.ai_lane_x ELSE o.ai_lane_x
        IN  o.ret = (60 * o.ai_speed) \div 600
                    - (IF o.on_road THEN 0 ELSE 90)
                    + (IF 10 * lane < 27000 THEN 9 ELSE -15)
                    + (IF 0 < gap /\ 10 * gap < 640000 THEN 30 ELSE 0)
                    - (IF 10 * gap > 1920000 THEN 30 ELSE 0)

\* The agent was just ahead of the player across the start line, off the
\* road and wide of the centre at top speed: 2.0 - 3.0 - 0.5.
C12_Witness ==
    /\ reward_obs.calls > 0
    /\ reward_obs.ai_pos = 0 /\ reward_obs.player_pos = 640000 - 1
    /\ ~reward_obs.on_road
    /\ reward_obs.ai_lane_x = 2700
    /\ reward_obs.ai_speed = 600
    /\ reward_obs.ret = 60 - 90 - 15

(***************************************************************************)
(* C13  merge_sort_scores leaves the list in descending order of score and *)
(* as a permutation of its input, for lists of every length: empty, at     *)
(* most 10 (insertion sort) and more than 10 (merge); scores [10, 50, 30]  *)
(* become [50, 30, 10].                                                    *)
(***************************************************************************)
C13_SortedPermutation ==
    sort_obs.calls > 0 =>
        LET in  == sort_obs.input
            out == score_data
        IN  /\ Len(out) = Len(in)
            /\ \A i \in 1 .. Len(out) - 1 : out[i].score >= out[i + 1].score
            /\ \A r \in {in[i] : i \in 1 .. Len(in)} \cup {out[i] : i \in 1 .. Len(out)} :
                   Cardinality({i \in 1 .. Len(in) : in[i] = r})
                       = Cardinality({i \in 1 .. Len(out) : out[i] = r})
            /\ [i \in 1 .. Len(in) |-> in[i].score] = <<10, 50, 30>>
                   => [i \in 1 .. Len(out) |-> out[i].score] = <<50, 30, 10>>

\* A list of more than ten records that was out of order has been sorted.
C13_Witness ==
    /\ sort_obs.calls > 0
    /\ Len(sort_obs.input) > 10
    /\ sort_obs.input[1].score = 10
    /\ sort_obs.input[11].score = 50
    /\ score_data[1].score = 50
    /\ score_data[11].score = 10
    /\ score_data # sort_obs.input

(***************************************************************************)
(* C14  merge_sort_scores is stable: for lists of every length, two        *)
(* records with equal scores appear in the output in the same relative     *)
(* order as in the input.                                                  *)
(***************************************************************************)
C14_Stable ==
    sort_obs.calls > 0 =>
        LET in     == sort_obs.input
            out    == score_data
            pos(r) == CHOOSE i \in 1 .. Len(in) : in[i] = r
        IN  \A a, b \in 1 .. Len(out) :
                (a < b /\ out[a].score = out[b].score) => pos(out[a]) < pos(out[b])

C16_ParamsOverwrite ==
    /\ vehicle.gf_force = 981 * vehicle.mass
    /\ vehicle_obs.op = "apply_vehicle_params" =>
           LET p      == vehicle_obs.params
               before == vehicle_obs.before
               given  == DOMAIN p
           IN  /\ vehicle.mass = IF "vehicle_mass" \in given
                                 THEN p["vehicle_mass"] ELSE before.mass
               /\ vehicle.drag_coeff =
                      IF "drag_coefficient" \in given THEN p["drag_coefficient"]
                      ELSE IF "Modify Drag Coefficient" \in given
                           THEN p["Modify Drag Coefficient"]
                           ELSE before.drag_coeff
               /\ vehicle.base_engine_force = IF "engine_force" \in given
                                              THEN p["engine_force"]
                                              ELSE before.base_engine_force
               /\ \A f \in DOMAIN vehicle \ {"mass", "gf_force", "drag_coeff",
                                             "base_engine_force"} :
                      vehicle[f] = before[f]

\* The last call changed the mass alone, after an earlier call had changed
\* another field.
C16_Witness ==
    /\ vehicle_obs.op = "apply_vehicle_params"
    /\ DOMAIN vehicle_obs.params = {"vehicle_mass"}
    /\ vehicle.mass = 750
    /\ vehicle.mass # vehicle_obs.before.mass
    /\ vehicle.gf_force = 735750
    /\ vehicle.base_engine_force = 1000000

(***************************************************************************)
(* C17  Every QLearningAI.update returns BASE_FORWARD + 0.1 * speed, with   *)
(* the speed as the chosen action left it; the value is strictly positive  *)
(* whatever the action, and the agent's new position is its old position   *)
(* plus that value, less one track length when the sum reaches the end of  *)
(* the track: the agent never moves backwards.                             *)
(***************************************************************************)
C17_ForwardAdvance ==
    ai_obs.action # NoValue =>
        LET old == ai_obs.ai_pos
            sum == old + ai_obs.forward
        IN  /\ 10 * ai_obs.forward = 10 * BASE_FORWARD + ai.speed
            /\ ai_obs.forward > 0
            /\ ai_obs.forward < TRACK_LEN
            /\ ai.position = IF sum < TRACK_LEN THEN sum ELSE sum - TRACK_LEN
            /\ ai.position \in 0 .. TRACK_LEN - 1

\* The agent braked on the tick that took it across the start line: it
\* still advanced, by BASE_FORWARD and a tenth of its lowered speed, and its
\* position wrapped.
C17_Witness ==
    /\ ai_obs.action = 1
    /\ ai.speed = 80
    /\ ai_obs.forward = 248
    /\ ai.position < ai_obs.ai_pos
    /\ ai.position = ai_obs.ai_pos + 248 - TRACK_LEN

(***************************************************************************)
(* C18  When LapTracker.update reports a completion, lap_count goes up by   *)
(* exactly 1, lap_time is reset to 0 and best_lap becomes the smaller of    *)
(* its previous value and the time of the lap just completed (that time    *)
(* when there was no previous value); when it reports none, lap_count and   *)
(* best_lap stay as they were.  best_lap is None exactly while lap_count    *)
(* is 0, and once set it never increases.                                  *)
(***************************************************************************)
C18_LapBookkeeping ==
    /\ [][IF lap_obs'.ret
          THEN /\ lap'.lap_count = lap.lap_count + 1
               /\ lap'.lap_time = 0
               /\ lap_obs'.fired_time >= lap.lap_time
               /\ lap'.best_lap = IF lap.best_lap = NoValue
                                     \/ lap_obs'.fired_time < lap.best_lap
                                  THEN lap_obs'.fired_time
                                  ELSE lap.best_lap
          ELSE /\ lap'.lap_count = lap.lap_count
               /\ lap'.best_lap = lap.best_lap]_vars
    /\ [](lap.best_lap = NoValue <=> lap.lap_count = 0)
    /\ [][lap.best_lap # NoValue =>
              lap'.best_lap # NoValue /\ lap'.best_lap <= lap.best_lap]_vars

\* A second lap, slower than the first, was just counted and left the best
\* lap as it was.
C18_Witness ==
    /\ lap_obs.ret
    /\ lap.lap_count = 2
    /\ lap.lap_time = 0
    /\ lap.best_lap # NoValue
    /\ lap_obs.fired_time > lap.best_lap

C20_FrameOrder ==
    LET order == <<"begin", "input", "physics", "road", "lap", "ai", "score",
                   "draw", "events", "present">>
    IN  /\ Len(run.steps) <= Len(order)
        /\ run.steps = SubSeq(order, 1, Len(run.steps))
        /\ run.pc = "begin" => Len(run.steps) \in {0, Len(order)}
        /\ run.pc = "begin" => (Len(run.steps) = 0 <=> frames = 0)

\* A whole frame has run, in which a lap was counted before the agent was
\* updated, and a second frame has begun.
C20_Witness ==
    /\ frames = 1
    /\ run.steps = <<"begin", "input">>
    /\ lap.lap_count = 1
    /\ ai_obs.action # NoValue
    /\ render_obs.projected > 0

\* C20 as the specification words it: input sampling, then physics update,
\* then AI update, then lap and scoring update, then projection and draw,
\* then present; a section that has run in the current frame was preceded
\* by the ones listed before it.
C20_ClaimedOrder ==
    LET ran(a)       == \E i \in 1 .. Len(run.steps) : run.steps[i] = a
        at(a)        == CHOOSE i \in 1 .. Len(run.steps) : run.steps[i] = a
        before(a, b) == ran(b) => (ran(a) /\ at(a) < at(b))
    IN  /\ before("input", "physics")
        /\ before("physics", "ai")
        /\ before("ai", "lap")
        /\ before("ai", "score")
        /\ before("lap", "draw")
        /\ before("score", "draw")
        /\ before("draw", "present")

(***************************************************************************)
(* C21  No projection value persists across frames: every read of a line's *)
(* X, Y, W or scale made in a frame (the player's road clamp, the agent's   *)
(* road half-width, the line before a road band, a decoration sprite) is    *)
(* of a line the render loop of that same frame has projected.             *)
(***************************************************************************)
C21_ReadsProjectedThisFrame ==
    \A r \in run.reads : r.projected = r.frame

(***************************************************************************)
(* C22  When the agent does not explore, the action it takes has a Q-value  *)
(* in the current state at least that of every other action, and among     *)
(* equally valued actions it is the first in the order accelerate, brake,  *)
(* left, right, coast (accelerate in a state never visited); when it        *)
(* explores, the action is one of the five.                                *)
(***************************************************************************)
C22_GreedyIsFirstArgmax ==
    ai_obs.action # NoValue =>
        /\ ai_obs.action \in 0 .. 4
        /\ ~ai_obs.explored =>
               LET row == ai.q[ai_obs.state]
               IN  /\ \A b \in 0 .. 4 : row[b] <= row[ai_obs.action]
                   /\ \A b \in 0 .. 4 : b < ai_obs.action => row[b] < row[ai_obs.action]
                   /\ (\A b \in 0 .. 4 : row[b] = 0) => ai_obs.action = 0

\* The agent exploited in a state whose row it had written before, and took
\* an action other than accelerate because accelerate was not maximal.
C22_Witness ==
    /\ ai_obs.action \in 1 .. 4
    /\ ~ai_obs.explored
    /\ \E b \in 0 .. 4 : ai.q[ai_obs.state][b] # 0

(***************************************************************************)
(* C23  The agent's speed stays in [0, MAX_SPEED] after any sequence of    *)
(* updates: accelerate sets it to min(MAX_SPEED, speed + ACCEL_STEP),       *)
(* brake to max(0, speed - 0.8 * ACCEL_STEP), and steer-left, steer-right   *)
(* and coast leave it as it was.                                           *)
(***************************************************************************)
C23_SpeedInRange ==
    /\ [](ai.speed >= 0 /\ ai.speed <= 600)
    /\ [][frames' # frames =>
              CASE ai_obs'.action = 0 ->
                       ai'.speed = IF ai.speed + 200 > 600 THEN 600 ELSE ai.speed + 200
                [] ai_obs'.action = 1 ->
                       ai'.speed = IF ai.speed - 160 < 0 THEN 0 ELSE ai.speed - 160
                [] OTHER -> ai'.speed = ai.speed]_vars

\* Two accelerations in a row have brought the agent to MAX_SPEED, the
\* second one cut short by the cap.
C23_Witness ==
    /\ frames = 2
    /\ ai_obs.action = 0
    /\ ai.speed = 600

(***************************************************************************)
(* C24  After every QLearningAI.update called with a road half-width        *)
(* w >= 0 the agent's lateral offset lies in [-w, w]; steer-left and        *)
(* steer-right move it by exactly STEER_STEP before that clamp.            *)
(***************************************************************************)
C24_LaneClamped ==
    /\ [](ai_obs.action # NoValue /\ ai_obs.road_half_w >= 0 =>
              -ai_obs.road_half_w <= ai.lane_x /\ ai.lane_x <= ai_obs.road_half_w)
    /\ [][frames' # frames /\ ai_obs'.road_half_w >= 0 =>
              LET w     == ai_obs'.road_half_w
                  moved == CASE ai_obs'.action = 2 -> ai.lane_x - 40
                             [] ai_obs'.action = 3 -> ai.lane_x + 40
                             [] OTHER -> ai.lane_x
              IN  ai'.lane_x = IF moved > w THEN w ELSE IF moved < -w THEN -w ELSE moved]_vars

\* The agent steered right twice on a road of half-width 60: the second step
\* took it to 80 and the clamp brought it back to 60.
C24_Witness ==
    /\ frames = 2
    /\ ai_obs.action = 3
    /\ ai_obs.road_half_w = 60
    /\ ai.lane_x = 60

(***************************************************************************)
(* C25  When the action chosen in an update is coast, the agent's speed     *)
(* after the update equals its speed before it, and its lateral offset is   *)
(* the offset before it clamped to the road half-width passed in,           *)
(* max(-w, min(w, lane_x)): unchanged whenever it lay within [-w, w].       *)
(***************************************************************************)
C25_CoastKeepsSpeedClampsLane ==
    [][frames' # frames /\ ai_obs'.action = 4 =>
           LET w       == ai_obs'.road_half_w
               capped  == IF ai.lane_x <= w THEN ai.lane_x ELSE w
               clamped == IF capped >= -w THEN capped ELSE -w
           IN  /\ ai'.speed = ai.speed
               /\ ai'.lane_x = clamped
               /\ (-w <= ai.lane_x /\ ai.lane_x <= w) => ai'.lane_x = ai.lane_x]_vars

\* The agent, 40 to the right of the centre of a road of half-width 60,
\* coasted and stayed where it was.
C25_Witness ==
    /\ frames = 2
    /\ ai_obs.action = 4
    /\ ai_obs.road_half_w = 60
    /\ ai.lane_x = 40
    /\ ai.speed = 240

\* C25 as the specification words it: coasting leaves speed and lateral
\* offset as they were, for every road half-width passed in.
C25_CoastChangesNothing ==
    [][frames' # frames /\ ai_obs'.action = 4 =>
           ai'.speed = ai.speed /\ ai'.lane_x = ai.lane_x]_vars

(***************************************************************************)
(* C28  If the same positive road half-width is passed to two consecutive  *)
(* QLearningAI.update calls, the agent is not judged off-road in the later  *)
(* one, whatever steering actions it took.                                 *)
(***************************************************************************)
C28_ClampedIsOnRoad ==
    [][frames' # frames /\ ai_obs.action # NoValue
           /\ ai_obs'.road_half_w > 0 /\ ai_obs'.road_half_w = ai_obs.road_half_w
           => ai_obs'.on_road]_vars

(***************************************************************************)
(* C26  In one frame's forward pass over the segments, the clip of each     *)
(* segment is the smallest projected Y among the segments already drawn in  *)
(* that pass, the window height if none was drawn; the segment's road bands *)
(* are drawn exactly when its projected Y is strictly less than that value. *)
(* So the Ys of the drawn segments strictly decrease in draw order, and a   *)
(* segment whose Y is not less is skipped.                                  *)
(***************************************************************************)
C26_ClipIsSmallestDrawnY ==
    LET out == pass_obs.out
        DrawnBefore(k) == {j \in 1..(k - 1) : out[j].drawn}
        Smallest(k) ==
            IF DrawnBefore(k) = {} THEN WINDOW_HEIGHT
            ELSE CHOOSE y \in {out[j].Y : j \in DrawnBefore(k)} :
                     \A j \in DrawnBefore(k) : y <= out[j].Y
    IN  /\ Len(out) = Len(pass_obs.ys)
        /\ \A k \in 1..Len(out) :
              /\ out[k].Y = pass_obs.ys[k]
              /\ out[k].clip = Smallest(k)
              /\ out[k].drawn <=> out[k].Y < out[k].clip
        /\ \A j, k \in 1..Len(out) :
              j < k /\ out[j].drawn /\ out[k].drawn => out[k].Y < out[j].Y

\* A pass over four lines: the first is drawn, the second has the same Y and
\* is skipped, the third is higher on screen and drawn, the fourth lies below
\* the window and is skipped.
C26_Witness ==
    /\ pass_obs.calls = 1
    /\ pass_obs.ys = <<400, 400, 300, 800>>
    /\ pass_obs.out[1].drawn /\ pass_obs.out[1].clip = WINDOW_HEIGHT
    /\ ~pass_obs.out[2].drawn /\ pass_obs.out[2].clip = 400
    /\ pass_obs.out[3].drawn
    /\ ~pass_obs.out[4].drawn /\ pass_obs.out[4].clip = 300

(***************************************************************************)
(* C27  In the built track of N = 1600 segments, segment i uses the colour  *)
(* triple (surface, rumble, road) selected by (i // 3) mod 2: the segments  *)
(* of one run of 3 share one triple, and the runs next to it use the other  *)
(* of the two triples.                                                      *)
(***************************************************************************)
C27_ColourBands ==
    LET Triple(l) == <<l.SURFACE_COLOUR, l.RUMBLE_COLOUR, l.ROAD_COLOUR>>
        Even == <<SURFACE_BLUE, BLACK_STREAK, DARK_ROAD>>
        Odd  == <<SURFACE_GREY, WHITE_STREAK, LIGHT_ROAD>>
        \* road_lines[i + 1] is segment i
        Seg(i) == road_lines[i + 1]
        Built == 0..(Len(road_lines) - 1)
    IN  /\ Even # Odd
        /\ Len(road_lines) <= TOTAL_SEGMENTS
        /\ \A i \in Built :
              /\ Seg(i).i = i
              /\ Triple(Seg(i)) = IF (i \div 3) % 2 = 0 THEN Even ELSE Odd
              /\ Triple(Seg(i)) = Triple(Seg(3 * (i \div 3)))
              /\ i + 3 \in Built =>
                    /\ Triple(Seg(i + 3)) # Triple(Seg(i))
                    /\ Triple(Seg(i + 3)) \in {Even, Odd}

\* The whole track is built: segments 0 to 2 carry the first triple, 3 to 5
\* the second, and the last segment, 1599, the second.
C27_Witness ==
    /\ Len(road_lines) = TOTAL_SEGMENTS
    /\ road_lines[1].SURFACE_COLOUR = SURFACE_BLUE
    /\ road_lines[3].ROAD_COLOUR = DARK_ROAD
    /\ road_lines[4].SURFACE_COLOUR = SURFACE_GREY
    /\ road_lines[6].RUMBLE_COLOUR = WHITE_STREAK
    /\ road_lines[TOTAL_SEGMENTS].ROAD_COLOUR = LIGHT_ROAD

(***************************************************************************)
(* C29  After any sequence of menu actions, the speed multiplier handed to  *)
(* the game is strictly positive; in particular, saving the customization   *)
(* menu with every slider at its centre leaves the multiplier at 1.0.       *)
(***************************************************************************)
C29_MultiplierPositive ==
    /\ app.game.started => app.game.speed_multiplier > 0
    /\ (app.last = "save" /\ \A n \in SliderIds : app.sliders[n] = 0)
           => app.speed_multiplier = MULT_ONE

(***************************************************************************)
(* C30  Once a login has succeeded, user_logged_in stays true for the rest  *)
(* of the session, and every later choice of Account from the main menu     *)
(* opens the logged-in confirmation screen, never the login form, also      *)
(* after that confirmation screen has been visited and left.                *)
(***************************************************************************)
C30_AccountOpensLoggedInScreen ==
    [][app.user_logged_in =>
           /\ app'.user_logged_in
           /\ ~app'.login_menu
           /\ app'.last = "account" => Branch(app') = "logged_in_screen"]_vars
====
